---- MODULE Spec2Model ----
(***************************************************************************)
(* DALEX: the plan -> approve -> execute -> recover -> remember loop.       *)
(*                                                                         *)
(* State: the plan registry (core/gestor_planes.py), the frame of the      *)
(* executor run in progress (core/ejecutor.py), the error memory           *)
(* (memoria/avanzada/errores.py).  Operations: the agent's message         *)
(* handler (core/agente.py), the approve / reject routes (api/rutas.py),   *)
(* the registry operations and the executor called directly.               *)
(*                                                                         *)
(* Scheduling: every route of api/rutas.py is an `async def` without an    *)
(* `await`, and the text-generation client is a blocking httpx.Client, so  *)
(* a request runs to completion on the event loop before the next one      *)
(* starts.  A handler is therefore a run of steps during which no other    *)
(* handler is enabled (pc # "inactivo").                                   *)
(*                                                                         *)
(* Texts (user messages, error texts) are sequences of one-character       *)
(* strings; generated contents are sequences of code points.               *)
(***************************************************************************)
EXTENDS Integers, Sequences, FiniteSets, TLC

\* ------------------------------------------------------------------ bounds
MaxPlanes == 2
MaxPasos == 2
\* Reports made to the error memory for one error hash.
MaxOcurrencias == 5
\* Documents added to the semantic memory, the seconds between two readings
\* of the clock, and the last reading.
MaxAgregados == 2
PasoReloj == 15
MaxReloj == 60
\* Under concurrent registrations: the rows of the error table when a call
\* that finds no row is made, and the occurrences of a row that a call finds.
MaxFilas == 2
MaxHalladas == 2

\* --------------------------------------------------------------- constants
\* max_intentos of _ejecutar_con_recuperacion, max_reintentos of Autocorrector.
max_intentos == 3
max_reintentos == 3
\* config.memoria_errores_umbral (default).
umbral == 2
\* config.memoria_errores_max (default).
max_registros == 5000
\* MemoriaSemantica._VENTANA_ANTI_AUTOCITACION, in seconds.
VENTANA_ANTI_AUTOCITACION == 30
\* config.memoria_semantica_max_resultados (default).
max_resultados == 5
\* config.memoria_episodica_max
memoria_episodica_max == 10000
\* mensaje[:100] in the error hash.
PrefijoHash == 100

Sesiones == {"s1", "s2"}
PlanIds == 1..MaxPlanes

\* Python None for a step's skill (JSON null).
Nulo == "null"
\* CatalogoSkills.skills: the capabilities loaded at start-up.
Catalogo == {"buscar"}

\* EstadoPlan
PENDIENTE == "pendiente"
APROBADO == "aprobado"
RECHAZADO == "rechazado"
EN_EJECUCION == "en_ejecucion"
COMPLETADO == "completado"
FALLIDO == "fallido"
EstadoPlan == {PENDIENTE, APROBADO, RECHAZADO, EN_EJECUCION, COMPLETADO, FALLIDO}

\* TipoPaso
RAZONAMIENTO == "razonamiento"
SKILL == "skill"
RESPUESTA == "respuesta"
TipoPaso == {RAZONAMIENTO, SKILL, RESPUESTA}

\* ------------------------------------------------------------------- texts
\* str.lower() on the characters the model uses.
Lower(c) ==
    CASE c = "A" -> "a" [] c = "B" -> "b" [] c = "C" -> "c" [] c = "D" -> "d"
      [] c = "E" -> "e" [] c = "F" -> "f" [] c = "H" -> "h" [] c = "I" -> "i"
      [] c = "K" -> "k" [] c = "L" -> "l" [] c = "M" -> "m" [] c = "N" -> "n"
      [] c = "O" -> "o" [] c = "P" -> "p" [] c = "Q" -> "q" [] c = "R" -> "r"
      [] c = "S" -> "s"
      [] c = "T" -> "t" [] c = "U" -> "u" [] c = "Y" -> "y" [] c = "Í" -> "í"
      [] OTHER -> c

lower(texto) == [i \in 1..Len(texto) |-> Lower(texto[i])]

\* str.strip(): drops the blanks at both ends.
RECURSIVE lstrip(_)
lstrip(texto) ==
    IF texto # <<>> /\ Head(texto) = " " THEN lstrip(Tail(texto)) ELSE texto

RECURSIVE rstrip(_)
rstrip(texto) ==
    IF texto # <<>> /\ texto[Len(texto)] = " "
    THEN rstrip(SubSeq(texto, 1, Len(texto) - 1))
    ELSE texto

strip(texto) == rstrip(lstrip(texto))

\* Python's `p in texto` for strings.
Contiene(texto, p) ==
    \E i \in 0..(Len(texto) - Len(p)) : SubSeq(texto, i + 1, i + Len(p)) = p

\* AgenteDALEX.PALABRAS_APROBACION / PALABRAS_RECHAZO
PALABRAS_APROBACION ==
    { <<"s", "í">>, <<"s", "i">>, <<"y", "e", "s">>, <<"o", "k">>,
      <<"d", "a", "l", "e">>, <<"a", "d", "e", "l", "a", "n", "t", "e">>,
      <<"a", "p", "r", "u", "e", "b", "o">>, <<"e", "j", "e", "c", "u", "t", "a">> }

PALABRAS_RECHAZO ==
    { <<"n", "o">>, <<"c", "a", "n", "c", "e", "l", "a", "r">>,
      <<"r", "e", "c", "h", "a", "z", "a", "r">>, <<"c", "a", "n", "c", "e", "l">>,
      <<"o", "t", "r", "o">> }

\* The user messages the model sends: "SI", "Ok", "SÍ", " dale ", "No", "OTRO",
\* "No ok", "hola", "".
Mensajes ==
    { <<"S", "I">>, <<"O", "k">>, <<"S", "Í">>, <<" ", "d", "a", "l", "e", " ">>,
      <<"N", "o">>, <<"O", "T", "R", "O">>, <<"N", "o", " ", "o", "k">>,
      <<"h", "o", "l", "a">>, <<>> }

\* ----------------------------------------------------------------- state
VARIABLES
    planes,        \* GestorPlanes._planes: plan id -> Plan
    sesiones,      \* GestorPlanes._sesiones: session id -> plan id
    siguienteId,   \* the next fresh plan id (uuid4 never repeats)
    pc,            \* where the handler in progress stands
    ej,            \* the frame of the handler / executor run in progress
    errores,       \* MemoriaErrores: the rows of table memoria_errores
    activo,        \* gestor_memoria.activo (modo pro, initialised)
    resultado,     \* the ResultadoEjecucion ejecutar_plan returned
    salida,        \* the response the handler returns
    aprobaciones,  \* history: stored plans a user approval was given for
    corridas,      \* history: executor runs that started each stored plan
    semantica,     \* MemoriaSemantica: its collection, its fields, the clock
    memoria        \* MemoriaEpisodica: its switch and its table; the stores at fault

vars == <<planes, sesiones, siguienteId, pc, ej, errores, activo, resultado,
          salida, aprobaciones, corridas, semantica, memoria>>

\* ---------------------------------------------------------------- planner
\* {}: the empty parameter map
SinParametros == [k \in {} |-> 0]

\* The steps ("pasos") of the JSON object the planner's text-generation call
\* returned, as _parsear_json hands them over: a step's kind string and skill,
\* and its parameter map when the object has one.
PasoDatos ==
    { [tipo |-> "respuesta", skill |-> Nulo],
      [tipo |-> "respuesta", skill |-> "buscar"],
      [tipo |-> "razonamiento", skill |-> Nulo],
      [tipo |-> "skill", skill |-> "buscar"],
      [tipo |-> "skill", skill |-> "volar", parametros |-> [altura |-> 1]],
      [tipo |-> "analisis", skill |-> Nulo] }

DatosPlan == UNION { [1..n -> PasoDatos] : n \in 0..MaxPasos }

\* The planner outputs the service is driven with: no steps, a lone step of an
\* unknown kind, a lone response naming a skill, lone reasoning, a lone call of
\* an absent skill, reasoning followed by a response.
DatosServicio ==
    { <<>>,
      << [tipo |-> "analisis", skill |-> Nulo] >>,
      << [tipo |-> "respuesta", skill |-> "buscar"] >>,
      << [tipo |-> "razonamiento", skill |-> Nulo] >>,
      << [tipo |-> "skill", skill |-> "volar"] >>,
      << [tipo |-> "razonamiento", skill |-> Nulo],
         [tipo |-> "respuesta", skill |-> Nulo] >> }

\* The planner outputs the pro-mode executor is driven with.
DatosPro ==
    { << [tipo |-> "razonamiento", skill |-> Nulo] >>,
      << [tipo |-> "skill", skill |-> "volar"] >>,
      << [tipo |-> "razonamiento", skill |-> Nulo],
         [tipo |-> "respuesta", skill |-> Nulo] >> }

\* The planner outputs the registry operations are driven with.
DatosBasicos ==
    { <<>>,
      << [tipo |-> "skill", skill |-> "volar"] >> }

\* TipoPaso(tipo_str), ValueError -> RESPUESTA
tipo_de(tipo_str) == IF tipo_str \in TipoPaso THEN tipo_str ELSE RESPUESTA

\* paso_datos.get("parametros", {})
parametros_de(paso_datos) ==
    IF "parametros" \in DOMAIN paso_datos THEN paso_datos.parametros ELSE SinParametros

\* Planificador.generar_plan: the Plan built from the parsed steps.
generar_plan(plan_id, sesion_id, datos) ==
    LET pasos == [i \in 1..Len(datos) |->
                    [numero |-> i, tipo |-> tipo_de(datos[i].tipo),
                     skill |-> datos[i].skill,
                     parametros |-> parametros_de(datos[i])]]
        defecto == << [numero |-> 1, tipo |-> RESPUESTA, skill |-> Nulo,
                       parametros |-> SinParametros] >>
    IN  [id |-> plan_id, sesion_id |-> sesion_id,
         pasos |-> IF pasos = <<>> THEN defecto ELSE pasos,
         estado |-> PENDIENTE]

\* --------------------------------------------------------------- registry
\* A registry value R is [planes |-> ..., sesiones |-> ...].
Quitar(f, k) == [x \in (DOMAIN f) \ {k} |-> f[x]]
Poner(f, k, v) == [x \in (DOMAIN f) \cup {k} |-> IF x = k THEN v ELSE f[x]]

\* GestorPlanes.registrar_plan
registrar_plan(R, plan) ==
    [planes |-> Poner(R.planes, plan.id, plan),
     sesiones |-> Poner(R.sesiones, plan.sesion_id, plan.id)]

\* A lookup of the active plan that forgets whose session it is asked for.
obtener_plan_activo_de_cualquiera(R, sesion_id) ==
    IF \E p \in DOMAIN R.planes : R.planes[p].estado = PENDIENTE
    THEN CHOOSE p \in DOMAIN R.planes : R.planes[p].estado = PENDIENTE
    ELSE 0

\* GestorPlanes.obtener_plan_activo: the plan id, or 0 for None.
obtener_plan_activo(R, sesion_id) ==
    IF /\ sesion_id \in DOMAIN R.sesiones
       /\ R.sesiones[sesion_id] \in DOMAIN R.planes
       /\ R.planes[R.sesiones[sesion_id]].estado = PENDIENTE
    THEN R.sesiones[sesion_id]
    ELSE 0

\* A guard of aprobar_plan that forgets the plan's state.
puede_aprobar_cualquiera(R, plan_id) == plan_id \in DOMAIN R.planes

\* A guard of aprobar_plan that also lets a rejected plan through.
puede_aprobar_rechazado(R, plan_id) ==
    plan_id \in DOMAIN R.planes /\ R.planes[plan_id].estado \in {PENDIENTE, RECHAZADO}

\* GestorPlanes.aprobar_plan: the guard, and the registry after the call.
puede_aprobar(R, plan_id) ==
    plan_id \in DOMAIN R.planes /\ R.planes[plan_id].estado = PENDIENTE

aprobar_plan(R, plan_id) ==
    IF puede_aprobar(R, plan_id)
    THEN [R EXCEPT !.planes[plan_id].estado = APROBADO]
    ELSE R

\* A guard of rechazar_plan that forgets the plan's state.
puede_rechazar_cualquiera(R, plan_id) == plan_id \in DOMAIN R.planes

\* GestorPlanes.rechazar_plan
puede_rechazar(R, plan_id) ==
    plan_id \in DOMAIN R.planes /\ R.planes[plan_id].estado = PENDIENTE

rechazar_plan(R, plan_id) ==
    IF puede_rechazar(R, plan_id)
    THEN [R EXCEPT !.planes[plan_id].estado = RECHAZADO]
    ELSE R

\* A limpiar_sesion that drops the mapping and keeps the plan object.
limpiar_sesion_solo_mapa(R, sesion_id) ==
    [planes |-> R.planes, sesiones |-> Quitar(R.sesiones, sesion_id)]

\* A limpiar_sesion that leaves the registry as it is.
limpiar_sesion_nada(R, sesion_id) == R

\* GestorPlanes.limpiar_sesion
limpiar_sesion(R, sesion_id) ==
    IF sesion_id \in DOMAIN R.sesiones
    THEN [planes |-> Quitar(R.planes, R.sesiones[sesion_id]),
          sesiones |-> Quitar(R.sesiones, sesion_id)]
    ELSE R

\* A test of simplicity with the comparison of the kind inverted.
es_plan_simple_tipo_invertido(plan) ==
    /\ Len(plan.pasos) = 1
    /\ plan.pasos[1].skill = Nulo
    /\ plan.pasos[1].tipo # RESPUESTA

\* A test of simplicity that forgets the step's skill.
es_plan_simple_sin_skill(plan) ==
    Len(plan.pasos) = 1 /\ plan.pasos[1].tipo = RESPUESTA

\* AgenteDALEX._es_plan_simple
es_plan_simple(plan) ==
    IF Len(plan.pasos) > 1 THEN FALSE
    ELSE IF plan.pasos[1].skill # Nulo THEN FALSE
    ELSE plan.pasos[1].tipo = RESPUESTA

\* An approval test that wants the whole message to be a keyword.
es_aprobacion_exacta(mensaje) == strip(lower(mensaje)) \in PALABRAS_APROBACION

\* any(p in mensaje_lower for p in PALABRAS_...) on mensaje.lower().strip()
es_aprobacion(mensaje) ==
    \E p \in PALABRAS_APROBACION : Contiene(strip(lower(mensaje)), p)

\* A rejection test that forgets to lower the message.
es_rechazo_sin_lower(mensaje) ==
    \E p \in PALABRAS_RECHAZO : Contiene(strip(mensaje), p)

es_rechazo(mensaje) ==
    \E p \in PALABRAS_RECHAZO : Contiene(strip(lower(mensaje)), p)

\* ---------------------------------------------------- text generation calls
\* What one selector_llm.generar call returns: a RespuestaLLM with exito and
\* contenido, or with exito = False and an error text.
Exito(c) == [exito |-> TRUE, contenido |-> c, error |-> <<>>]
Fallo(e) == [exito |-> FALSE, contenido |-> <<>>, error |-> e]

\* Generated contents, as code points: "", "Hi", and U+4F60 U+597D followed by "!".
Contenidos == { <<>>, <<72, 105>>, <<20320, 22909, 33>> }
ContenidosBasicos == { <<72, 105>> }

\* "Timeout después de 120s" (ProveedorOllama.generar, httpx.TimeoutException)
ErrorTimeout ==
    <<"T", "i", "m", "e", "o", "u", "t", " ", "d", "e", "s", "p", "u", "é", "s",
      " ", "d", "e", " ", "1", "2", "0", "s">>
\* "HTTP 404: Not Found", "HTTP 500: Falta modelo", "HTTP 500: error"
\* (ProveedorOllama.generar, status # 200, with the upstream body)
ErrorHttp404 ==
    <<"H", "T", "T", "P", " ", "4", "0", "4", ":", " ", "N", "o", "t", " ",
      "F", "o", "u", "n", "d">>
ErrorHttpFalta ==
    <<"H", "T", "T", "P", " ", "5", "0", "0", ":", " ", "F", "a", "l", "t", "a",
      " ", "m", "o", "d", "e", "l", "o">>
ErrorHttp500 ==
    <<"H", "T", "T", "P", " ", "5", "0", "0", ":", " ", "e", "r", "r", "o", "r">>

ErroresLLM == {ErrorTimeout, ErrorHttp404, ErrorHttpFalta, ErrorHttp500}

RespuestasLLM == {Exito(c) : c \in Contenidos} \cup {Fallo(e) : e \in ErroresLLM}
RespuestasBasicas ==
    {Exito(c) : c \in ContenidosBasicos} \cup {Fallo(e) : e \in ErroresLLM}

\* str(skill) inside an f-string
Letras(skill) ==
    CASE skill = "buscar" -> <<"b", "u", "s", "c", "a", "r">>
      [] skill = "volar" -> <<"v", "o", "l", "a", "r">>
      [] OTHER -> <<"N", "o", "n", "e">>

\* f"Skill no encontrada: {paso.skill}" (_ejecutar_skill)
SkillNoEncontrada(skill) ==
    <<"S", "k", "i", "l", "l", " ", "n", "o", " ", "e", "n", "c", "o", "n", "t",
      "r", "a", "d", "a", ":", " ">> \o Letras(skill)

\* The try block of _ejecutar_paso (lines 228-241) with the step bodies it
\* calls: the text it returns, or the exception it raises (`lanza`), given
\* what the text-generation call returns if it is made.
cuerpo_paso(paso, llm) ==
    IF paso.tipo = SKILL /\ paso.skill \notin Catalogo
    THEN [lanza |-> TRUE, contenido |-> <<>>, error |-> SkillNoEncontrada(paso.skill)]
    ELSE IF ~llm.exito
    THEN [lanza |-> TRUE, contenido |-> <<>>, error |-> llm.error]
    ELSE [lanza |-> FALSE, contenido |-> llm.contenido, error |-> <<>>]

\* How a call of _ejecutar_paso ends: with a ResultadoPaso returned, or with
\* an exception that propagates to the caller (`propagada`).
ResultadoPaso(exito, contenido, error) ==
    [exito |-> exito, contenido |-> contenido, error |-> error, propagada |-> FALSE]
Propagada(error) ==
    [exito |-> FALSE, contenido |-> <<>>, error |-> error, propagada |-> TRUE]

\* An attempt that does not look the skill up in the catalog.
ejecutar_paso_sin_catalogo(paso, llm) ==
    ResultadoPaso(llm.exito, llm.contenido, llm.error)

\* An attempt without the except clause: what the body raises propagates.
ejecutar_paso_sin_except(paso, llm) ==
    LET c == cuerpo_paso(paso, llm)
    IN  IF c.lanza THEN Propagada(c.error)
        ELSE ResultadoPaso(TRUE, c.contenido, <<>>)

\* EjecutorPlan._ejecutar_paso: the try block, and `except Exception` (line
\* 243) that turns whatever it raises into a failed ResultadoPaso.
ejecutar_paso(paso, llm) ==
    LET c == cuerpo_paso(paso, llm)
    IN  IF c.lanza THEN ResultadoPaso(FALSE, <<>>, c.error)
        ELSE ResultadoPaso(TRUE, c.contenido, <<>>)

\* Whether the attempt calls the text-generation client.
paso_llama_llm(paso) == ~(paso.tipo = SKILL /\ paso.skill \notin Catalogo)

\* ----------------------------------------------------------- autocorrector
\* TipoError
SKILL_NO_ENCONTRADA == "skill_no_encontrada"
PARAMETRO_FALTANTE == "parametro_faltante"
PARAMETRO_INVALIDO == "parametro_invalido"
TIMEOUT == "timeout"
LLM_ERROR == "llm_error"
DESCONOCIDO == "desconocido"

NoDiagnostico == [tipo |-> "None", mensaje |-> <<>>, recuperable |-> FALSE, skill |-> Nulo]

NoEstrategia == [accion |-> "None", parametros |-> SinParametros, probabilidad |-> 0]

\* A classification without the rule for timeouts.
diagnosticar_sin_timeout(error, skill) ==
    LET error_lower == lower(error)
    IN  IF \/ Contiene(error_lower, <<"n", "o", " ", "e", "n", "c", "o", "n", "t", "r", "a", "d", "a">>)
           \/ Contiene(error_lower, <<"n", "o", "t", " ", "f", "o", "u", "n", "d">>)
        THEN [tipo |-> SKILL_NO_ENCONTRADA, mensaje |-> error, recuperable |-> TRUE,
              skill |-> skill]
        ELSE IF \/ Contiene(error_lower, <<"f", "a", "l", "t", "a">>)
                \/ Contiene(error_lower, <<"r", "e", "q", "u", "e", "r", "i", "d", "o">>)
        THEN [tipo |-> PARAMETRO_FALTANTE, mensaje |-> error, recuperable |-> TRUE,
              skill |-> Nulo]
        ELSE [tipo |-> DESCONOCIDO, mensaje |-> error, recuperable |-> FALSE,
              skill |-> skill]

\* A classification that compares the text as it is written.
diagnosticar_sin_lower(error, skill) ==
    IF \/ Contiene(error, <<"n", "o", " ", "e", "n", "c", "o", "n", "t", "r", "a", "d", "a">>)
       \/ Contiene(error, <<"n", "o", "t", " ", "f", "o", "u", "n", "d">>)
    THEN [tipo |-> SKILL_NO_ENCONTRADA, mensaje |-> error, recuperable |-> TRUE,
          skill |-> skill]
    ELSE IF \/ Contiene(error, <<"f", "a", "l", "t", "a">>)
            \/ Contiene(error, <<"r", "e", "q", "u", "e", "r", "i", "d", "o">>)
    THEN [tipo |-> PARAMETRO_FALTANTE, mensaje |-> error, recuperable |-> TRUE,
          skill |-> Nulo]
    ELSE IF Contiene(error, <<"t", "i", "m", "e", "o", "u", "t">>)
    THEN [tipo |-> TIMEOUT, mensaje |-> error, recuperable |-> TRUE, skill |-> Nulo]
    ELSE [tipo |-> DESCONOCIDO, mensaje |-> error, recuperable |-> FALSE,
          skill |-> skill]

\* Autocorrector._clasificacion_rapida and the default of diagnosticar.
\* `skill` is contexto.get("skill").
diagnosticar(error, skill) ==
    LET error_lower == lower(error)
    IN  IF \/ Contiene(error_lower, <<"n", "o", " ", "e", "n", "c", "o", "n", "t", "r", "a", "d", "a">>)
           \/ Contiene(error_lower, <<"n", "o", "t", " ", "f", "o", "u", "n", "d">>)
        THEN [tipo |-> SKILL_NO_ENCONTRADA, mensaje |-> error, recuperable |-> TRUE,
              skill |-> skill]
        ELSE IF \/ Contiene(error_lower, <<"f", "a", "l", "t", "a">>)
                \/ Contiene(error_lower, <<"r", "e", "q", "u", "e", "r", "i", "d", "o">>)
        THEN [tipo |-> PARAMETRO_FALTANTE, mensaje |-> error, recuperable |-> TRUE,
              skill |-> Nulo]
        ELSE IF Contiene(error_lower, <<"t", "i", "m", "e", "o", "u", "t">>)
        THEN [tipo |-> TIMEOUT, mensaje |-> error, recuperable |-> TRUE, skill |-> Nulo]
        ELSE [tipo |-> DESCONOCIDO, mensaje |-> error, recuperable |-> FALSE,
              skill |-> skill]

\* ------------------------------------------------------------ error memory
\* hashlib.sha256(f"{tipo}:{skill}:{mensaje[:100]}"): the digest is taken to be
\* injective, so the hashed triple stands for it.
Min(a, b) == IF a < b THEN a ELSE b

hash_error(tipo, skill, mensaje) ==
    <<tipo, skill, SubSeq(mensaje, 1, Min(Len(mensaje), PrefijoHash))>>

\* The table memoria_errores is the sequence of its rows in ascending order
\* of their timestamp column; hash_error has no unique constraint.

\* A lookup that finds no row.
primera_ninguna(E, h) == 0

\* db.query(RegistroErrorMemoria).filter(hash_error == h).first(): the
\* position of the row, 0 for None.
primera(E, h) ==
    IF \E k \in 1..Len(E) : E[k].hash_error = h
    THEN CHOOSE k \in 1..Len(E) :
             /\ E[k].hash_error = h
             /\ \A j \in 1..(k - 1) : E[j].hash_error # h
    ELSE 0

\* ....filter(hash_error == h, solucion_exitosa == True).first()
primera_exitosa(E, h) ==
    IF \E k \in 1..Len(E) : E[k].hash_error = h /\ E[k].solucion_exitosa
    THEN CHOOSE k \in 1..Len(E) :
             /\ E[k].hash_error = h /\ E[k].solucion_exitosa
             /\ \A j \in 1..(k - 1) : ~(E[j].hash_error = h /\ E[j].solucion_exitosa)
    ELSE 0

\* db.delete(row k)
SinFila(E, k) == SubSeq(E, 1, k - 1) \o SubSeq(E, k + 1, Len(E))

\* MemoriaErrores._limpiar_viejos: while the table holds more than
\* max_registros rows, the row with the fewest occurrences, the oldest of
\* them, is deleted.
RECURSIVE limpiar_viejos(_)
limpiar_viejos(E) ==
    IF Len(E) <= max_registros THEN E
    ELSE LET k == CHOOSE x \in 1..Len(E) :
                      \A j \in 1..Len(E) :
                          \/ E[x].ocurrencias < E[j].ocurrencias
                          \/ (E[x].ocurrencias = E[j].ocurrencias /\ x <= j)
         IN  limpiar_viejos(SinFila(E, k))

\* A registration whose update of an existing row lets a failed report take
\* the mark away.
registrar_olvida(E, tipo, mensaje, skill, estrategia, exito, detalle) ==
    LET h == hash_error(tipo, skill, mensaje)
        k == primera(E, h)
    IN  IF k # 0
        THEN Append(SinFila(E, k),
                 IF exito /\ estrategia \notin {"None", ""}
                 THEN [E[k] EXCEPT !.ocurrencias = @ + 1,
                                   !.estrategia_usada = estrategia,
                                   !.solucion_exitosa = TRUE,
                                   !.solucion_detalle = detalle]
                 ELSE [E[k] EXCEPT !.ocurrencias = @ + 1,
                                   !.solucion_exitosa = FALSE])
        ELSE limpiar_viejos(Append(E,
                 [hash_error |-> h,
                  tipo_error |-> tipo, mensaje_error |-> mensaje, skill |-> skill,
                  estrategia_usada |-> IF estrategia = "None" THEN "" ELSE estrategia,
                  solucion_exitosa |-> exito,
                  solucion_detalle |-> detalle,
                  ocurrencias |-> 1]))

\* MemoriaErrores.registrar; `estrategia` is an action name or "None".  A row
\* that is updated gets a new timestamp: it becomes the last one.
registrar(E, tipo, mensaje, skill, estrategia, exito, detalle) ==
    LET h == hash_error(tipo, skill, mensaje)
        k == primera(E, h)
    IN  IF k # 0
        THEN Append(SinFila(E, k),
                 IF exito /\ estrategia \notin {"None", ""}
                 THEN [E[k] EXCEPT !.ocurrencias = @ + 1,
                                   !.estrategia_usada = estrategia,
                                   !.solucion_exitosa = TRUE,
                                   !.solucion_detalle = detalle]
                 ELSE [E[k] EXCEPT !.ocurrencias = @ + 1])
        ELSE limpiar_viejos(Append(E,
                 [hash_error |-> h,
                  tipo_error |-> tipo, mensaje_error |-> mensaje, skill |-> skill,
                  estrategia_usada |-> IF estrategia = "None" THEN "" ELSE estrategia,
                  solucion_exitosa |-> exito,
                  solucion_detalle |-> detalle,
                  ocurrencias |-> 1]))

\* A registration that reports every outcome as a success.
registrar_error_siempre_exito(E, act, diagnostico, estrategia, exito) ==
    IF ~act THEN E
    ELSE registrar(E, diagnostico.tipo, diagnostico.mensaje, diagnostico.skill,
                   estrategia.accion, TRUE, estrategia.parametros)

\* A registration that reports every outcome as a failure.
registrar_error_siempre_fallo(E, act, diagnostico, estrategia, exito) ==
    IF ~act THEN E
    ELSE registrar(E, diagnostico.tipo, diagnostico.mensaje, diagnostico.skill,
                   estrategia.accion, FALSE, estrategia.parametros)

\* GestorMemoriaAvanzada.registrar_error
registrar_error(E, act, diagnostico, estrategia, exito) ==
    IF ~act THEN E
    ELSE registrar(E, diagnostico.tipo, diagnostico.mensaje, diagnostico.skill,
                   estrategia.accion, exito, estrategia.parametros)

\* MemoriaErrores.buscar_solucion: whether a solution is returned, and it.
hay_solucion(E, tipo, mensaje, skill) ==
    LET k == primera_exitosa(E, hash_error(tipo, skill, mensaje))
    IN  /\ k # 0
        /\ E[k].ocurrencias >= umbral

\* confianza = min(ocurrencias / 10, 1.0), in tenths
confianza(ocurrencias) == Min(ocurrencias, 10)

buscar_solucion(E, tipo, mensaje, skill) ==
    LET reg == E[primera_exitosa(E, hash_error(tipo, skill, mensaje))]
    IN  [estrategia |-> reg.estrategia_usada, detalle |-> reg.solucion_detalle,
         ocurrencias |-> reg.ocurrencias, confianza |-> confianza(reg.ocurrencias)]

\* A lookup that offers any successful solution, whatever its count.
buscar_en_memoria_sin_umbral(E, diagnostico) ==
    LET k == primera_exitosa(E, hash_error(diagnostico.tipo, diagnostico.skill,
                                           diagnostico.mensaje))
    IN  IF k = 0 THEN NoEstrategia
        ELSE [accion |-> E[k].estrategia_usada, parametros |-> E[k].solucion_detalle,
              probabilidad |-> confianza(E[k].ocurrencias)]

\* Autocorrector._buscar_en_memoria: the remembered strategy, or NoEstrategia.
buscar_en_memoria(E, diagnostico) ==
    IF /\ hay_solucion(E, diagnostico.tipo, diagnostico.mensaje, diagnostico.skill)
       /\ buscar_solucion(E, diagnostico.tipo, diagnostico.mensaje,
                          diagnostico.skill).confianza >= 5
    THEN LET sol == buscar_solucion(E, diagnostico.tipo, diagnostico.mensaje,
                                    diagnostico.skill)
         IN  [accion |-> sol.estrategia, parametros |-> sol.detalle,
              probabilidad |-> sol.confianza]
    ELSE NoEstrategia

\* "Necesito más información: "
NecesitoMas ==
    <<"N", "e", "c", "e", "s", "i", "t", "o", " ", "m", "á", "s", " ", "i", "n", "f",
      "o", "r", "m", "a", "c", "i", "ó", "n", ":", " ">>
\* "Se necesita más información"
SeNecesitaMas ==
    <<"S", "e", " ", "n", "e", "c", "e", "s", "i", "t", "a", " ", "m", "á", "s", " ",
      "i", "n", "f", "o", "r", "m", "a", "c", "i", "ó", "n">>

\* The static policy of Autocorrector.generar_estrategia (probabilities in tenths).
estrategia_estatica(diagnostico, intentos_previos) ==
    IF diagnostico.tipo = SKILL_NO_ENCONTRADA
    THEN [accion |-> "skill_alternativa", parametros |-> SinParametros, probabilidad |-> 5]
    ELSE IF diagnostico.tipo = PARAMETRO_FALTANTE
    THEN [accion |-> "pedir_input", parametros |-> [mensaje |-> NecesitoMas \o diagnostico.mensaje],
          probabilidad |-> 9]
    ELSE IF diagnostico.tipo = TIMEOUT
    THEN [accion |-> "reintentar", parametros |-> [timeout_multiplicador |-> 2],
          probabilidad |-> 6]
    ELSE IF intentos_previos = 0
    THEN [accion |-> "reintentar", parametros |-> SinParametros, probabilidad |-> 4]
    ELSE NoEstrategia

\* A generation of strategies that asks the memory before it counts the
\* attempts.
generar_estrategia_memoria_primero(E, act, diagnostico, intentos_previos) ==
    IF ~diagnostico.recuperable THEN NoEstrategia
    ELSE IF act /\ buscar_en_memoria(E, diagnostico).accion # "None"
    THEN buscar_en_memoria(E, diagnostico)
    ELSE IF intentos_previos >= max_reintentos
    THEN [accion |-> "escalar", parametros |-> SinParametros, probabilidad |-> 0]
    ELSE estrategia_estatica(diagnostico, intentos_previos)

\* Autocorrector.generar_estrategia
generar_estrategia(E, act, diagnostico, intentos_previos) ==
    IF ~diagnostico.recuperable THEN NoEstrategia
    ELSE IF intentos_previos >= max_reintentos
    THEN [accion |-> "escalar", parametros |-> SinParametros, probabilidad |-> 0]
    ELSE IF act /\ buscar_en_memoria(E, diagnostico).accion # "None"
    THEN buscar_en_memoria(E, diagnostico)
    ELSE estrategia_estatica(diagnostico, intentos_previos)

\* ------------------------------------------------------------ code points
\* re.compile(r'[一-鿿㐀-䶿豈-﫿]').search(respuesta)
es_cjk(cp) ==
    \/ (19968 <= cp /\ cp <= 40959)
    \/ (13312 <= cp /\ cp <= 19903)
    \/ (63744 <= cp /\ cp <= 64255)

\* What \s matches and str.strip() removes: Unicode white space.
es_espacio(cp) ==
    \/ cp \in {9, 10, 11, 12, 13, 28, 29, 30, 31, 32, 133, 160, 5760, 8232, 8233,
               8239, 8287, 12288}
    \/ (8192 <= cp /\ cp <= 8202)

RECURSIVE sin_espacios_al_inicio(_)
sin_espacios_al_inicio(texto) ==
    IF texto # <<>> /\ es_espacio(Head(texto))
    THEN sin_espacios_al_inicio(Tail(texto)) ELSE texto

RECURSIVE sin_espacios_al_final(_)
sin_espacios_al_final(texto) ==
    IF texto # <<>> /\ es_espacio(texto[Len(texto)])
    THEN sin_espacios_al_final(SubSeq(texto, 1, Len(texto) - 1)) ELSE texto

\* -------------------------------------------------------- semantic memory
\* A document of the collection: its text as code points and, of its
\* metadata, the plan id (Nulo when the key is absent) and the timestamp, in
\* seconds.  The collection maps document ids to documents.
Documento(contenido, plan_id, timestamp) ==
    [contenido |-> contenido, plan_id |-> plan_id, timestamp |-> timestamp]

\* _PATRON_CJK.search(contenido)
patron_cjk_search(contenido) == \E k \in 1..Len(contenido) : es_cjk(contenido[k])

\* _PATRON_CJK.sub('', texto)
patron_cjk_sub(texto) == SelectSeq(texto, LAMBDA cp : ~es_cjk(cp))

\* re.sub(r'\s+', ' ', texto): of every run of white space the first position
\* is kept, as a blank.
colapsar_espacios(texto) ==
    LET marcas == [k \in 1..Len(texto) |->
                      [cp |-> IF es_espacio(texto[k]) THEN 32 ELSE texto[k],
                       queda |-> \/ ~es_espacio(texto[k])
                                 \/ k = 1
                                 \/ ~es_espacio(texto[k - 1])]]
        quedan == SelectSeq(marcas, LAMBDA m : m.queda)
    IN  [i \in 1..Len(quedan) |-> quedan[i].cp]

\* A sanitizer that normalises the white space and keeps every code point.
sanitizar_contenido_sin_patron(texto) ==
    sin_espacios_al_final(sin_espacios_al_inicio(colapsar_espacios(texto)))

\* MemoriaSemantica._sanitizar_contenido
sanitizar_contenido(texto) ==
    IF texto = <<>> THEN texto
    ELSE sin_espacios_al_final(sin_espacios_al_inicio(
             colapsar_espacios(patron_cjk_sub(texto))))

\* MemoriaSemantica._limpiar_contenido_cjk on collection C: the documents with
\* a CJK code point are deleted, and those whose sanitized text is not empty
\* are added again under their id with that text and their metadata.
limpiar_contenido_cjk(C) ==
    LET ids_a_eliminar == {i \in DOMAIN C : patron_cjk_search(C[i].contenido)}
        ids_a_reindexar ==
            {i \in ids_a_eliminar : sanitizar_contenido(C[i].contenido) # <<>>}
    IN  [i \in (DOMAIN C \ ids_a_eliminar) \cup ids_a_reindexar |->
            IF i \in ids_a_reindexar
            THEN [C[i] EXCEPT !.contenido = sanitizar_contenido(@)]
            ELSE C[i]]

\* str(uuid4()) of the n-th document added.
NuevoId(n) == IF n = 1 THEN "n1" ELSE IF n = 2 THEN "n2" ELSE "n3"

\* The semantic memory: _inicializado, the collection, _plan_id_actual, the
\* number of documents added, datetime.utcnow(), and the last call made on it
\* with what it returned (`hallados`: the ids of the documents returned by
\* buscar, in order; `primero`: the id the query ranked first).
SemanticaAusente ==
    [inicializado |-> FALSE, coleccion |-> [i \in {} |-> 0], plan_id_actual |-> Nulo,
     agregados |-> 0, ahora |-> VENTANA_ANTI_AUTOCITACION,
     op |-> "", plan_id |-> Nulo, doc_id |-> Nulo, hallados |-> <<>>,
     primero |-> Nulo]

SinLlamada(S) ==
    [S EXCEPT !.op = "", !.plan_id = Nulo, !.doc_id = Nulo, !.hallados = <<>>,
              !.primero = Nulo]

\* MemoriaSemantica.inicializar when ChromaDB is installed.
inicializar(S) ==
    [SinLlamada(S) EXCEPT !.inicializado = TRUE,
                          !.coleccion = limpiar_contenido_cjk(S.coleccion),
                          !.op = "inicializar"]

\* MemoriaSemantica.agregar, with metadata that has or has not a plan id.
agregar(S, contenido, plan_id) ==
    LET contenido_limpio == sanitizar_contenido(contenido)
        doc_id == NuevoId(S.agregados + 1)
    IN  IF ~S.inicializado \/ contenido_limpio = <<>>
        THEN [SinLlamada(S) EXCEPT !.op = "agregar", !.plan_id = plan_id]
        ELSE [SinLlamada(S) EXCEPT
                !.coleccion = Poner(@, doc_id,
                                  Documento(contenido_limpio, plan_id, S.ahora)),
                !.agregados = @ + 1,
                !.op = "agregar", !.plan_id = plan_id, !.doc_id = doc_id]

\* A filter that lets the documents of every plan through.
excluye_plan_nunca(plan_id_filtro, doc) == FALSE

\* The first filter of buscar (line 123).
excluye_plan(plan_id_filtro, doc) ==
    plan_id_filtro # Nulo /\ doc.plan_id = plan_id_filtro

\* A filter that takes one reading of the clock less for the window.
excluye_reciente_corta(ahora, doc) ==
    ahora - doc.timestamp < VENTANA_ANTI_AUTOCITACION - PasoReloj

\* The second filter of buscar (lines 127-135); every timestamp was written
\* by agregar and parses.
excluye_reciente(ahora, doc) ==
    ahora - doc.timestamp < VENTANA_ANTI_AUTOCITACION

\* The loop of buscar over the ranked ids (lines 119-144): the ids kept.
RECURSIVE filtrar(_, _, _, _, _)
filtrar(S, orden, plan_id_filtro, n, docs) ==
    IF orden = <<>> THEN docs
    ELSE LET doc == S.coleccion[Head(orden)]
         IN  IF excluye_plan(plan_id_filtro, doc) \/ excluye_reciente(S.ahora, doc)
             THEN filtrar(S, Tail(orden), plan_id_filtro, n, docs)
             ELSE IF Len(docs) + 1 >= n
             THEN Append(docs, Head(orden))
             ELSE filtrar(S, Tail(orden), plan_id_filtro, n, Append(docs, Head(orden)))

\* The rankings a query for n_query results can return: the collection's
\* documents by similarity to the query text, in any order.
Ordenes(C, n_query) ==
    LET k == Min(n_query, Cardinality(DOMAIN C))
    IN  {o \in [1..k -> DOMAIN C] : \A a, b \in 1..k : o[a] = o[b] => a = b}

\* n_query = min(n * 3, 50), with n = limite or max_resultados (0 for None)
n_de(limite) == IF limite = 0 THEN max_resultados ELSE limite
n_query_de(limite) == Min(n_de(limite) * 3, 50)

\* MemoriaSemantica.buscar, given the ranking the collection's query returns.
buscar(S, limite, plan_id, orden) ==
    IF ~S.inicializado
    THEN [SinLlamada(S) EXCEPT !.op = "buscar", !.plan_id = plan_id]
    ELSE [SinLlamada(S) EXCEPT
            !.op = "buscar", !.plan_id = plan_id,
            !.primero = IF orden = <<>> THEN Nulo ELSE orden[1],
            !.hallados = filtrar(S, orden,
                                 IF plan_id # Nulo THEN plan_id ELSE S.plan_id_actual,
                                 n_de(limite), <<>>)]

\* -------------------------------------------------------- episodic memory
\* The episodic memory: MemoriaEpisodica.habilitada (False too when the gestor
\* holds no episodic memory), the rows of table memoria_episodica in ascending
\* order of their timestamp, and the stores whose operations raise at present
\* ("sqlite": the database of the episodic and error memories; "chroma": the
\* collection of the semantic memory).
\* `registros`: the calls of MemoriaErrores.registrar that have run their query
\* and have not written yet, by the session whose plan run made them.
MemoriaAusente ==
    [episodica |-> FALSE, episodios |-> <<>>, averias |-> {},
     registros |-> [s \in {} |-> 0]]

\* How a call of a store operation ends when the store is, or is not, at
\* fault: whether its work is done and whether an exception leaves the call.
\* The except clause swallows the fault.
con_except(averiado) == [hecho |-> ~averiado, propagada |-> FALSE]

\* The operations of MemoriaErrores without their except clauses: the fault
\* propagates.
llamada_errores_sin_except(averias) ==
    [hecho |-> "sqlite" \notin averias, propagada |-> "sqlite" \in averias]

\* MemoriaErrores.registrar and buscar_solucion: the try blocks that open
\* the session (lines 43-77, 90-103) and `except Exception` (78-80, 104-105).
llamada_errores(averias) == con_except("sqlite" \in averias)

\* MemoriaEpisodica.registrar and buscar_similares: try (lines 43-62, 74-95)
\* and `except Exception` (63-65, 96-98).
llamada_episodica(averias) == con_except("sqlite" \in averias)

\* MemoriaSemantica.agregar and buscar: try (lines 87-93, 105-146) and
\* `except Exception` (94-96, 147-149).
llamada_semantica(averias) == con_except("chroma" \in averias)

\* MemoriaEpisodica._limpiar_viejos: the oldest rows beyond the maximum go.
limpiar_episodios(T) ==
    IF Len(T) > memoria_episodica_max
    THEN SubSeq(T, Len(T) - memoria_episodica_max + 1, Len(T))
    ELSE T

\* MemoriaEpisodica.registrar: the table after the call.
episodica_registrar(M, fila) ==
    IF ~M.episodica \/ ~llamada_episodica(M.averias).hecho THEN M
    ELSE [M EXCEPT !.episodios = limpiar_episodios(Append(@, fila))]

\* MemoriaEpisodica.buscar_similares(intencion, limite, solo_exito = True):
\* the plan ids of the rows returned.  Every intention is the same text, so
\* every row scores 1; the stable sort by score keeps the rows in descending
\* order of their timestamp.
RECURSIVE invertir(_)
invertir(T) == IF T = <<>> THEN <<>> ELSE Append(invertir(Tail(T)), Head(T))

buscar_similares(M, limite) ==
    IF ~M.episodica \/ ~llamada_episodica(M.averias).hecho THEN <<>>
    ELSE LET con_exito == SelectSeq(invertir(M.episodios), LAMBDA ep : ep.exito)
         IN  [k \in 1..Min(limite, Len(con_exito)) |-> con_exito[k].plan_id]

\* ------------------------------------------------------- executor: frame
\* The executor's frame: who called it and on which plan, the plan loop's
\* position and counters, the retry loop's locals, the text-generation calls
\* made so far, `cuerpos`, the number of times _ejecutar_paso has run on
\* step `cuerpos.paso`, the memory context of the run, and `tareas`, the state
\* of the plan at each call of registrar_tarea made by the run.
\* A response text: its kind, the step it comes from, its code points and, for
\* "Error en paso n: <error>", the error text.
Texto(clase, paso, cuerpo, error) ==
    [clase |-> clase, paso |-> paso, cuerpo |-> cuerpo, error |-> error]

TextoVacio == Texto("vacio", 0, <<>>, <<>>)

\* Python's `not respuesta_final`: the empty string.
es_vacio(t) == t.clase = "vacio" \/ (t.clase = "contenido" /\ t.cuerpo = <<>>)

\* "Se agotaron los intentos de recuperación"
ErrorAgotados ==
    <<"S", "e", " ", "a", "g", "o", "t", "a", "r", "o", "n", " ", "l", "o",
      "s", " ", "i", "n", "t", "e", "n", "t", "o", "s", " ", "d", "e", " ",
      "r", "e", "c", "u", "p", "e", "r", "a", "c", "i", "ó", "n">>
\* "Error desconocido"
ErrorDesconocido == <<"E", "r", "r", "o", "r", " ", "d", "e", "s", "c", "o", "n", "o", "c", "i", "d", "o">>

EjInactivo ==
    [origen |-> "", sesion |-> "", plan |-> 0, i |-> 0, intentos |-> 0,
     autocorregido |-> FALSE, diag |-> NoDiagnostico, estr |-> NoEstrategia,
     ok |-> 0, fail |-> 0, auto |-> 0, resp |-> TextoVacio, llm |-> 0,
     cuerpos |-> [paso |-> 0, n |-> 0],
     contexto |-> [clase |-> "None", docs |-> <<>>, similares |-> <<>>],
     tareas |-> <<>>]

NoResultado ==
    [exito |-> FALSE, respuesta_final |-> TextoVacio, pasos_ejecutados |-> 0,
     pasos_fallidos |-> 0, pasos_autocorregidos |-> 0, plan |-> 0]

\* The response of a handler; `descartados` is history: the stored plans the
\* handler dropped before it generated a new one.
NoSalida ==
    [clase |-> "None", http |-> 0, exito |-> FALSE, plan_id |-> 0,
     requiere_aprobacion |-> FALSE, respuesta |-> TextoVacio, descartados |-> {}]

\* History kept for the stored plans only: an evicted plan has no reference left.
Guardadas(A, P) == A \cap DOMAIN P
Contadas(C, P) == [p \in PlanIds |-> IF p \in DOMAIN P THEN C[p] ELSE 0]

\* ------------------------------------------------------ memory coordinator
\* ord(c) of the characters the texts are written with.
Codigo(c) ==
    CASE c = " " -> 32
      [] c = "!" -> 33
      [] c = "," -> 44
      [] c = "." -> 46
      [] c = "0" -> 48
      [] c = "1" -> 49
      [] c = "2" -> 50
      [] c = "3" -> 51
      [] c = "4" -> 52
      [] c = "5" -> 53
      [] c = ":" -> 58
      [] c = "A" -> 65
      [] c = "B" -> 66
      [] c = "C" -> 67
      [] c = "D" -> 68
      [] c = "E" -> 69
      [] c = "F" -> 70
      [] c = "H" -> 72
      [] c = "I" -> 73
      [] c = "K" -> 75
      [] c = "L" -> 76
      [] c = "M" -> 77
      [] c = "N" -> 78
      [] c = "O" -> 79
      [] c = "P" -> 80
      [] c = "R" -> 82
      [] c = "S" -> 83
      [] c = "T" -> 84
      [] c = "U" -> 85
      [] c = "Y" -> 89
      [] c = "a" -> 97
      [] c = "b" -> 98
      [] c = "c" -> 99
      [] c = "d" -> 100
      [] c = "e" -> 101
      [] c = "f" -> 102
      [] c = "g" -> 103
      [] c = "h" -> 104
      [] c = "i" -> 105
      [] c = "j" -> 106
      [] c = "k" -> 107
      [] c = "l" -> 108
      [] c = "m" -> 109
      [] c = "n" -> 110
      [] c = "o" -> 111
      [] c = "p" -> 112
      [] c = "q" -> 113
      [] c = "r" -> 114
      [] c = "s" -> 115
      [] c = "t" -> 116
      [] c = "u" -> 117
      [] c = "v" -> 118
      [] c = "y" -> 121
      [] c = "z" -> 122
      [] c = "Í" -> 205
      [] c = "á" -> 225
      [] c = "é" -> 233
      [] c = "í" -> 237
      [] c = "ó" -> 243

\* A text as the sequence of its code points.
Puntos(texto) == [k \in 1..Len(texto) |-> Codigo(texto[k])]

\* str(n) of a step number
Digitos(n) == <<48 + n>>

\* The final response as a string: the generated or rewritten text, "Plan
\* ejecutado correctamente." (line 108), f"Error en paso {paso.numero}:
\* {resultado.error}" (line 100) or "".
texto_respuesta(t) ==
    CASE t.clase \in {"contenido", "reescrita"} -> t.cuerpo
      [] t.clase = "defecto" ->
           <<80, 108, 97, 110, 32, 101, 106, 101, 99, 117, 116, 97, 100, 111, 32,
           99, 111, 114, 114, 101, 99, 116, 97, 109, 101, 110, 116, 101, 46>>
      [] t.clase = "error_paso" ->
           <<69, 114, 114, 111, 114, 32, 101, 110, 32, 112, 97, 115, 111, 32>>
               \o Digitos(t.paso) \o <<58, 32>> \o Puntos(t.error)
      [] OTHER -> <<>>

\* ', '.join(skills) of the steps' skills
RECURSIVE unir_skills(_)
unir_skills(skills) ==
    IF skills = <<>> THEN <<>>
    ELSE IF Len(skills) = 1 THEN Puntos(Letras(skills[1]))
    ELSE Puntos(Letras(skills[1])) \o <<44, 32>> \o unir_skills(Tail(skills))

\* skills = [p.skill for p in plan.pasos if p.skill] (line 116)
skills_de(plan) ==
    LET con == SelectSeq(plan.pasos, LAMBDA paso : paso.skill # Nulo)
    IN  [k \in 1..Len(con) |-> con[k].skill]

\* plan.intencion_original: every plan answers the message "hola".
intencion_original == <<104, 111, 108, 97>>

\* The text of MemoriaSemantica.agregar_episodio (lines 163-164):
\* f"Tarea: {intencion}\nResultado: {resultado}\nSkills: {skills_str}"
texto_episodio(intencion, respuesta, skills) ==
    <<84, 97, 114, 101, 97, 58, 32>> \o intencion
        \o <<10, 82, 101, 115, 117, 108, 116, 97, 100, 111, 58, 32>> \o respuesta
        \o <<10, 83, 107, 105, 108, 108, 115, 58, 32>>
        \o (IF skills = <<>> THEN <<110, 105, 110, 103, 117, 110, 97>>
            ELSE unir_skills(skills))

\* str(uuid4()) of the plan with the model's id `plan_id`: it is the plan id
\* of no document stored before the service started.
IdTexto(plan_id) ==
    IF plan_id = 1 THEN "q1" ELSE IF plan_id = 2 THEN "q2" ELSE "q3"

\* What ejecutar_plan keeps in contexto['contexto_memoria']: None, or the
\* string built from the documents found and the similar episodes ("" when
\* there are none).
SinContexto == [clase |-> "None", docs |-> <<>>, similares |-> <<>>]

\* GestorMemoriaAvanzada.buscar_contexto (lines 106-129) as ejecutar_plan
\* calls it (lines 64-76); `orden` is the ranking the collection's query
\* returns.  MemoriaSemantica.buscar_contexto searches with limite = 3.
contexto_memoria(act, M, S, plan_id, orden) ==
    IF ~act THEN SinContexto
    ELSE LET docs == IF S.inicializado /\ llamada_semantica(M.averias).hecho
                     THEN buscar(S, 3, IdTexto(plan_id), orden).hallados
                     ELSE <<>>
             similares == buscar_similares(M, 2)
         IN  IF llamada_semantica(M.averias).propagada
                \/ llamada_episodica(M.averias).propagada
             THEN SinContexto
             ELSE [clase |-> IF docs = <<>> /\ similares = <<>> THEN "vacio" ELSE "texto",
                   docs |-> docs, similares |-> similares]

\* GestorMemoriaAvanzada.registrar_tarea (lines 60-88) as ejecutar_plan calls
\* it (lines 114-131): the episodic and semantic memories after the call.
registrar_tarea(act, M, S, plan, exito, respuesta, autocorregidos) ==
    IF ~act THEN [memoria |-> M, semantica |-> S]
    ELSE [memoria |->
              episodica_registrar(M, [plan_id |-> plan.id, exito |-> exito,
                                      total_pasos |-> Len(plan.pasos),
                                      pasos_autocorregidos |-> autocorregidos]),
          semantica |->
              IF S.inicializado /\ llamada_semantica(M.averias).hecho
              THEN agregar(S, texto_episodio(intencion_original,
                                             texto_respuesta(respuesta),
                                             skills_de(plan)),
                           IdTexto(plan.id))
              ELSE S]

\* ------------------------------------------------- executor: ejecutar_plan
\* A guard of ejecutar_plan that also lets a pending plan through.
puede_ejecutar_pendiente(plan) == plan.estado \in {APROBADO, PENDIENTE}

\* A guard of ejecutar_plan that lets a finished plan run again.
puede_ejecutar_terminado(plan) == plan.estado \in {APROBADO, COMPLETADO, FALLIDO}

\* A guard of ejecutar_plan that only refuses a plan that is running.
puede_ejecutar_no_corriendo(plan) == plan.estado # EN_EJECUCION

\* The guard of ejecutar_plan (line 45).
puede_ejecutar(plan) == plan.estado = APROBADO

\* A handler calls ejecutar_plan on the plan `plan_id` of registry R: the
\* executor's frame is set up, with `llm` text-generation calls made so far.
llamar_ejecutor(R, origen, sesion_id, plan_id, llm) ==
    /\ planes' = R.planes
    /\ sesiones' = R.sesiones
    /\ pc' = "llamado"
    /\ ej' = [EjInactivo EXCEPT !.origen = origen, !.sesion = sesion_id,
                                !.plan = plan_id, !.llm = llm]
    /\ resultado' = NoResultado
    /\ corridas' = Contadas(corridas, R.planes)

\* EjecutorPlan.ejecutar_plan up to the first step (lines 43-82), with the
\* lookup of the memory context.
ejecutar_plan ==
    /\ pc = "llamado"
    /\ IF ~puede_ejecutar(planes[ej.plan])
       THEN /\ pc' = "retorno"
            /\ resultado' = [NoResultado EXCEPT
                               !.respuesta_final = Texto("no_aprobado", 0, <<>>, <<>>),
                               !.plan = ej.plan]
            /\ UNCHANGED <<planes, ej, corridas>>
       ELSE /\ planes' = [planes EXCEPT ![ej.plan].estado = EN_EJECUCION]
            /\ pc' = "ejecutando"
            /\ \E orden \in Ordenes(semantica.coleccion, n_query_de(3)) :
                   ej' = [ej EXCEPT !.i = 1,
                                    !.contexto = contexto_memoria(activo, memoria, semantica,
                                                                  ej.plan, orden)]
            /\ resultado' = NoResultado
            /\ corridas' = [corridas EXCEPT ![ej.plan] = @ + 1]
    /\ UNCHANGED <<sesiones, siguienteId, errores, activo, semantica, memoria, salida,
                   aprobaciones>>

\* A plan loop that ends at the first failed step.
terminar_paso_hasta_fallo(marco, plan, exito, contenido, error, autocorregido) ==
    LET paso == plan.pasos[marco.i]
        m1 == IF exito
              THEN [marco EXCEPT
                      !.ok = @ + 1,
                      !.resp = IF paso.tipo = RESPUESTA
                               THEN Texto("contenido", paso.numero, contenido, <<>>)
                               ELSE @,
                      !.auto = IF autocorregido THEN @ + 1 ELSE @]
              ELSE [marco EXCEPT
                      !.fail = @ + 1,
                      !.resp = IF es_vacio(@)
                               THEN Texto("error_paso", paso.numero, <<>>, error)
                               ELSE @]
    IN  [m1 EXCEPT !.i = IF exito THEN @ + 1 ELSE Len(plan.pasos) + 1,
                   !.intentos = 0, !.autocorregido = FALSE,
                   !.diag = NoDiagnostico, !.estr = NoEstrategia]

\* A bookkeeping of the plan loop in which every failed step writes its error
\* over the response.
terminar_paso_error_siempre(marco, plan, exito, contenido, error, autocorregido) ==
    LET paso == plan.pasos[marco.i]
        m1 == IF exito
              THEN [marco EXCEPT
                      !.ok = @ + 1,
                      !.resp = IF paso.tipo = RESPUESTA
                               THEN Texto("contenido", paso.numero, contenido, <<>>)
                               ELSE @,
                      !.auto = IF autocorregido THEN @ + 1 ELSE @]
              ELSE [marco EXCEPT
                      !.fail = @ + 1,
                      !.resp = Texto("error_paso", paso.numero, <<>>, error)]
    IN  [m1 EXCEPT !.i = @ + 1, !.intentos = 0, !.autocorregido = FALSE,
                   !.diag = NoDiagnostico, !.estr = NoEstrategia]

\* The plan loop's bookkeeping after a step returned (lines 87-100), and the
\* move to the next step.
terminar_paso(marco, plan, exito, contenido, error, autocorregido) ==
    LET paso == plan.pasos[marco.i]
        m1 == IF exito
              THEN [marco EXCEPT
                      !.ok = @ + 1,
                      !.resp = IF paso.tipo = RESPUESTA
                               THEN Texto("contenido", paso.numero, contenido, <<>>)
                               ELSE @,
                      !.auto = IF autocorregido THEN @ + 1 ELSE @]
              ELSE [marco EXCEPT
                      !.fail = @ + 1,
                      !.resp = IF es_vacio(@)
                               THEN Texto("error_paso", paso.numero, <<>>, error)
                               ELSE @]
    IN  [m1 EXCEPT !.i = @ + 1, !.intentos = 0, !.autocorregido = FALSE,
                   !.diag = NoDiagnostico, !.estr = NoEstrategia]

\* A test of the strategy that never sees pedir_input.
es_pedir_input_nunca(estrategia) == FALSE

\* The test of line 190.
es_pedir_input(estrategia) == estrategia.accion = "pedir_input"

\* A loop condition that stops one attempt early.
quedan_intentos_uno_menos(intentos) == intentos < max_intentos - 1

\* The loop condition of _ejecutar_con_recuperacion (line 157).
quedan_intentos(intentos) == intentos < max_intentos

\* An attempt that is not counted.
intento_sin_contar(intentos) == intentos

\* intentos += 1 (line 158)
siguiente_intento(intentos) == intentos + 1

\* A correction that hands the strategy's parameter map to the step, whatever
\* the strategy.
aplicar_correccion_siempre(paso, estrategia) ==
    [paso EXCEPT !.parametros = estrategia.parametros]

\* The correction applied before the next attempt (lines 199-203): only a
\* retry strategy that carries "parametros_corregidos" replaces the step's
\* parameter map.
aplicar_correccion(paso, estrategia) ==
    IF /\ estrategia.accion = "reintentar"
       /\ "parametros_corregidos" \in DOMAIN estrategia.parametros
    THEN [paso EXCEPT !.parametros = estrategia.parametros.parametros_corregidos]
    ELSE paso

\* One iteration of the retry loop of _ejecutar_con_recuperacion (lines 157-203)
\* on the current step; when the loop ends, also lines 205-215 and the plan
\* loop's bookkeeping.  `llm` is what the text-generation call returns.  An
\* exception that leaves _ejecutar_paso or an operation of the error memory
\* is caught nowhere in the executor: it leaves ejecutar_plan (pc "excepcion").
\* While the store of the error memory is at fault its lookups find nothing
\* and its registrations write nothing.  Each value of the iteration is
\* computed once and bound by \E over the one-element set that holds it.
Intento(llm) ==
    /\ pc = "ejecutando"
    /\ quedan_intentos(ej.intentos)
    /\ \E plan \in {planes[ej.plan]} :
       \E paso \in {plan.pasos[ej.i]} :
       \E intentos \in {siguiente_intento(ej.intentos)} :
       \E res \in {ejecutar_paso(paso, llm)} :
       \E m0 \in {[ej EXCEPT !.intentos = intentos,
                            !.llm = IF paso_llama_llm(paso) THEN @ + 1 ELSE @,
                            !.cuerpos = IF @.paso = ej.i
                                        THEN [@ EXCEPT !.n = @ + 1]
                                        ELSE [paso |-> ej.i, n |-> 1]]} :
       \E d \in {diagnosticar(IF res.error = <<>> THEN ErrorDesconocido
                                                  ELSE res.error,
                              paso.skill)} :
       \E le \in {llamada_errores(memoria.averias)} :
       \E escribe \in {activo /\ le.hecho} :
       \E est \in {generar_estrategia(errores, escribe, d, intentos)} :
       LET toca_errores ==
               activo /\ (~res.exito \/ (/\ ej.autocorregido
                                         /\ ej.diag.tipo # "None"
                                         /\ ej.estr.accion # "None"))
           sigue(m) == IF m.i > Len(plan.pasos) THEN "finalizando" ELSE "ejecutando"
           fin_paso(exito, contenido, error, autocorregido, E) ==
               /\ ej' = terminar_paso(m0, plan, exito, contenido, error, autocorregido)
               /\ pc' = sigue(ej')
               /\ errores' = E
           corrige == /\ ~res.propagada
                      /\ ~(toca_errores /\ le.propagada)
                      /\ ~res.exito
                      /\ d.recuperable
                      /\ est.accion \notin {"None", "abortar", "escalar"}
                      /\ ~es_pedir_input(est)
       IN  /\ planes' = IF corrige
                        THEN [planes EXCEPT ![ej.plan].pasos[ej.i] =
                                                 aplicar_correccion(paso, est)]
                        ELSE planes
           /\ IF res.propagada \/ (toca_errores /\ le.propagada)
              THEN /\ pc' = "excepcion"
                   /\ ej' = m0
                   /\ errores' = errores
              ELSE IF res.exito
              THEN fin_paso(TRUE, res.contenido, <<>>, ej.autocorregido,
                       IF /\ ej.autocorregido
                          /\ ej.diag.tipo # "None"
                          /\ ej.estr.accion # "None"
                       THEN registrar_error(errores, escribe, ej.diag, ej.estr, TRUE)
                       ELSE errores)
              ELSE IF ~d.recuperable
              THEN LET E1 == registrar_error(errores, escribe, d, NoEstrategia, FALSE)
                   IN  fin_paso(FALSE, <<>>, ErrorAgotados, ej.autocorregido,
                           IF ej.estr.accion # "None"
                           THEN registrar_error(E1, escribe, d, ej.estr, FALSE)
                           ELSE E1)
              ELSE IF est.accion \in {"None", "abortar", "escalar"}
              THEN LET E1 == registrar_error(errores, escribe, d, est, FALSE)
                   IN  fin_paso(FALSE, <<>>, ErrorAgotados, ej.autocorregido,
                           IF est.accion # "None"
                           THEN registrar_error(E1, escribe, d, est, FALSE)
                           ELSE E1)
              ELSE IF es_pedir_input(est)
              THEN fin_paso(FALSE, <<>>,
                       IF "mensaje" \in DOMAIN est.parametros
                       THEN est.parametros.mensaje ELSE SeNecesitaMas,
                       FALSE, errores)
              ELSE IF quedan_intentos(intentos)
              THEN /\ ej' = [m0 EXCEPT !.autocorregido = TRUE, !.diag = d, !.estr = est]
                   /\ pc' = "ejecutando"
                   /\ errores' = errores
              ELSE fin_paso(FALSE, <<>>, ErrorAgotados, TRUE,
                       registrar_error(errores, escribe, d, est, FALSE))
    /\ UNCHANGED <<sesiones, siguienteId, activo, semantica, memoria, resultado, salida,
                   aprobaciones, corridas>>

\* A detection that never finds a CJK code point.
tiene_cjk_nunca(t) == FALSE

tiene_cjk(t) == \E k \in 1..Len(t.cuerpo) : es_cjk(t.cuerpo[k])

\* A rewrite whose failure leaves no response.
sanitizar_idioma_sin_respaldo(t, llm, lanza) ==
    IF ~tiene_cjk(t) THEN t
    ELSE IF ~lanza /\ llm.exito /\ llm.contenido # <<>>
    THEN Texto("reescrita", t.paso,
               sin_espacios_al_final(sin_espacios_al_inicio(llm.contenido)), <<>>)
    ELSE TextoVacio

\* EjecutorPlan._sanitizar_idioma, given what the rewrite call returns (`llm`)
\* and whether the try block (lines 385-404) raises (`lanza`); the rewritten
\* text is contenido.strip().
sanitizar_idioma(t, llm, lanza) ==
    IF ~tiene_cjk(t) THEN t
    ELSE IF ~lanza /\ llm.exito /\ llm.contenido # <<>>
    THEN Texto("reescrita", t.paso,
               sin_espacios_al_final(sin_espacios_al_inicio(llm.contenido)), <<>>)
    ELSE t

\* A final state that ignores the failed steps.
estado_final_completado(pasos_fail) == COMPLETADO

\* The final state of the plan (lines 103-104).
estado_final(pasos_fail) == IF pasos_fail = 0 THEN COMPLETADO ELSE FALLIDO

\* The end of ejecutar_plan (lines 102-141): the plan's final state, the
\* default response, the sanitizer, the recording of the task and the result.
\* `llm` and `lanza` are the outcome of the sanitizer's rewrite call, if it is
\* made.
Fin(llm, lanza) ==
    /\ pc = "finalizando"
    /\ LET exito == ej.fail = 0
           r1 == IF es_vacio(ej.resp) /\ exito
                 THEN Texto("defecto", 0, <<>>, <<>>) ELSE ej.resp
           r2 == sanitizar_idioma(r1, llm, lanza)
           final == [planes EXCEPT ![ej.plan].estado = estado_final(ej.fail)]
           tarea == registrar_tarea(activo, memoria, semantica, final[ej.plan],
                                    exito, r2, ej.auto)
       IN  /\ planes' = final
           /\ ej' = [ej EXCEPT !.resp = r2,
                               !.llm = IF tiene_cjk(r1) THEN @ + 1 ELSE @,
                               !.tareas = IF activo
                                          THEN Append(@, final[ej.plan].estado)
                                          ELSE @]
           /\ memoria' = tarea.memoria
           /\ semantica' = tarea.semantica
           /\ resultado' = [exito |-> exito, respuesta_final |-> r2,
                            pasos_ejecutados |-> ej.ok, pasos_fallidos |-> ej.fail,
                            pasos_autocorregidos |-> ej.auto, plan |-> ej.plan]
    /\ pc' = "retorno"
    /\ UNCHANGED <<sesiones, siguienteId, errores, activo, salida, aprobaciones,
                   corridas>>

\* ------------------------------------------------------------------ agent
Registro == [planes |-> planes, sesiones |-> sesiones]

\* A handler that ends without running the executor: its response is formed.
responde(R, s) ==
    /\ planes' = R.planes
    /\ sesiones' = R.sesiones
    /\ salida' = s
    /\ pc' = "respondido"
    /\ ej' = EjInactivo
    /\ resultado' = NoResultado
    /\ corridas' = Contadas(corridas, R.planes)

\* A handler calls rechazar_plan on the pending plan `plan_id` of registry R.
rechazar(R, origen, sesion_id, plan_id) ==
    /\ planes' = rechazar_plan(R, plan_id).planes
    /\ sesiones' = R.sesiones
    /\ pc' = "rechazado"
    /\ ej' = [EjInactivo EXCEPT !.origen = origen, !.sesion = sesion_id,
                                !.plan = plan_id]
    /\ resultado' = NoResultado
    /\ salida' = NoSalida
    /\ corridas' = Contadas(corridas, R.planes)

\* AgenteDALEX._generar_y_presentar_plan on registry R; `datos` is the planner's
\* parsed output.
generar_y_presentar_plan(R, sesion_id, datos) ==
    /\ siguienteId <= MaxPlanes
    /\ siguienteId' = siguienteId + 1
    /\ LET plan == generar_plan(siguienteId, sesion_id, datos)
           R2 == registrar_plan(R, plan)
           descartados == (DOMAIN planes) \ (DOMAIN R.planes)
       IN  IF es_plan_simple(plan)
           THEN /\ llamar_ejecutor(aprobar_plan(R2, plan.id), "mensaje", sesion_id, plan.id, 1)
                /\ salida' = [NoSalida EXCEPT !.descartados = descartados]
                /\ aprobaciones' = Guardadas(aprobaciones, R2.planes)
           ELSE /\ responde(R2, [NoSalida EXCEPT !.clase = "plan", !.exito = TRUE,
                                                 !.plan_id = plan.id,
                                                 !.requiere_aprobacion = TRUE,
                                                 !.descartados = descartados])
                /\ aprobaciones' = Guardadas(aprobaciones, R2.planes)

\* AgenteDALEX._procesar_respuesta_plan for the pending plan `plan_id`.
procesar_respuesta_plan(R, sesion_id, mensaje, plan_id, datos) ==
    IF es_aprobacion(mensaje)
    THEN /\ datos = <<>>
         /\ llamar_ejecutor(aprobar_plan(R, plan_id), "mensaje", sesion_id, plan_id, 0)
         /\ salida' = NoSalida
         /\ aprobaciones' = Guardadas(aprobaciones \cup {plan_id}, R.planes)
         /\ UNCHANGED siguienteId
    ELSE IF es_rechazo(mensaje)
    THEN /\ datos = <<>>
         /\ rechazar(R, "mensaje", sesion_id, plan_id)
         /\ UNCHANGED <<siguienteId, aprobaciones>>
    ELSE generar_y_presentar_plan(limpiar_sesion(R, sesion_id), sesion_id, datos)

\* AgenteDALEX.procesar, up to the call of the executor or to the response.
Procesar(sesion_id, mensaje, datos) ==
    /\ pc = "inactivo"
    /\ IF obtener_plan_activo(Registro, sesion_id) # 0
       THEN procesar_respuesta_plan(Registro, sesion_id, mensaje,
                                    obtener_plan_activo(Registro, sesion_id), datos)
       ELSE generar_y_presentar_plan(Registro, sesion_id, datos)
    /\ UNCHANGED <<errores, activo, semantica, memoria>>

\* ----------------------------------------------------------------- routes
\* POST /planes/{plan_id}/aprobar, up to the call of the executor.
RutaAprobar(plan_id) ==
    /\ pc = "inactivo"
    /\ IF plan_id \notin DOMAIN planes
       THEN /\ responde(Registro, [NoSalida EXCEPT !.clase = "http", !.http = 404])
            /\ UNCHANGED aprobaciones
       ELSE IF planes[plan_id].estado # PENDIENTE
       THEN /\ responde(Registro, [NoSalida EXCEPT !.clase = "http", !.http = 400])
            /\ UNCHANGED aprobaciones
       ELSE /\ llamar_ejecutor(aprobar_plan(Registro, plan_id), "ruta",
                               planes[plan_id].sesion_id, plan_id, 0)
            /\ salida' = NoSalida
            /\ aprobaciones' = aprobaciones \cup {plan_id}
    /\ UNCHANGED <<siguienteId, errores, activo, semantica, memoria>>

\* POST /planes/{plan_id}/rechazar
RutaRechazar(plan_id) ==
    /\ pc = "inactivo"
    /\ IF plan_id \notin DOMAIN planes
       THEN responde(Registro, [NoSalida EXCEPT !.clase = "http", !.http = 404])
       ELSE IF planes[plan_id].estado # PENDIENTE
       THEN responde(Registro, [NoSalida EXCEPT !.clase = "http", !.http = 400])
       ELSE rechazar(Registro, "ruta", planes[plan_id].sesion_id, plan_id)
    /\ UNCHANGED <<siguienteId, errores, activo, semantica, memoria, aprobaciones>>

\* What follows rechazar_plan in the agent (lines 158-162) and in the reject
\* route (lines 122-124): limpiar_sesion and the response.
limpiar_tras_rechazo ==
    /\ pc = "rechazado"
    /\ responde(limpiar_sesion(Registro, ej.sesion),
                IF ej.origen = "mensaje"
                THEN [NoSalida EXCEPT !.clase = "cancelado", !.exito = TRUE]
                ELSE [NoSalida EXCEPT !.clase = "http", !.http = 200, !.exito = TRUE])
    /\ aprobaciones' = Guardadas(aprobaciones, planes')
    /\ UNCHANGED <<siguienteId, errores, activo, semantica, memoria>>

\* What the caller of ejecutar_plan does with the result: _ejecutar_plan of the
\* agent (limpiar_sesion, ResultadoAgente) and the approve route (limpiar_sesion).
Continuar ==
    /\ pc = "retorno"
    /\ LET R == IF ej.origen = "mensaje" THEN limpiar_sesion(Registro, ej.sesion)
                ELSE IF ej.origen = "ruta"
                THEN limpiar_sesion(Registro, planes[ej.plan].sesion_id)
                ELSE Registro
       IN  /\ planes' = R.planes
           /\ sesiones' = R.sesiones
           /\ aprobaciones' = Guardadas(aprobaciones, R.planes)
           /\ corridas' = Contadas(corridas, R.planes)
    /\ salida' = [salida EXCEPT
                    !.clase = IF ej.origen = "mensaje" THEN "final"
                              ELSE IF ej.origen = "ruta" THEN "http" ELSE "resultado",
                    !.http = IF ej.origen = "ruta" THEN 200 ELSE 0,
                    !.exito = resultado.exito,
                    !.plan_id = IF ej.origen = "mensaje" THEN ej.plan ELSE 0,
                    !.respuesta = resultado.respuesta_final]
    /\ pc' = "respondido"
    /\ UNCHANGED <<siguienteId, ej, errores, activo, semantica, memoria, resultado>>

\* The handler returns: its frame and its outputs are gone.
Responder ==
    /\ pc = "respondido"
    /\ pc' = "inactivo"
    /\ ej' = EjInactivo
    /\ resultado' = NoResultado
    /\ salida' = NoSalida
    /\ UNCHANGED <<planes, sesiones, siguienteId, errores, activo, semantica, memoria, aprobaciones,
                   corridas>>

\* ------------------------------------------------ operations called directly
\* Planificador.generar_plan followed by GestorPlanes.registrar_plan
OpRegistrar(sesion_id, datos) ==
    /\ pc = "inactivo"
    /\ siguienteId <= MaxPlanes
    /\ siguienteId' = siguienteId + 1
    /\ responde(registrar_plan(Registro, generar_plan(siguienteId, sesion_id, datos)),
                [NoSalida EXCEPT !.clase = "registrado", !.plan_id = siguienteId])
    /\ aprobaciones' = Guardadas(aprobaciones, planes')
    /\ UNCHANGED <<errores, activo, semantica, memoria>>

\* GestorPlanes.aprobar_plan
OpAprobar(plan_id) ==
    /\ pc = "inactivo"
    /\ responde(aprobar_plan(Registro, plan_id),
                [NoSalida EXCEPT !.clase = "aprobar", !.plan_id = plan_id,
                                 !.exito = puede_aprobar(Registro, plan_id)])
    /\ aprobaciones' = IF puede_aprobar(Registro, plan_id)
                       THEN aprobaciones \cup {plan_id} ELSE aprobaciones
    /\ UNCHANGED <<siguienteId, errores, activo, semantica, memoria>>

\* GestorPlanes.rechazar_plan
OpRechazar(plan_id) ==
    /\ pc = "inactivo"
    /\ responde(rechazar_plan(Registro, plan_id),
                [NoSalida EXCEPT !.clase = "rechazar", !.plan_id = plan_id,
                                 !.exito = puede_rechazar(Registro, plan_id)])
    /\ UNCHANGED <<siguienteId, errores, activo, semantica, memoria, aprobaciones>>

\* GestorPlanes.limpiar_sesion
OpLimpiar(sesion_id) ==
    /\ pc = "inactivo"
    /\ responde(limpiar_sesion(Registro, sesion_id),
                [NoSalida EXCEPT !.clase = "limpiar"])
    /\ aprobaciones' = Guardadas(aprobaciones, planes')
    /\ UNCHANGED <<siguienteId, errores, activo, semantica, memoria>>

\* EjecutorPlan.ejecutar_plan on a stored plan, whatever its state.
OpEjecutar(plan_id) ==
    /\ pc = "inactivo"
    /\ plan_id \in DOMAIN planes
    /\ llamar_ejecutor(Registro, "directo", planes[plan_id].sesion_id, plan_id, 0)
    /\ salida' = NoSalida
    /\ UNCHANGED <<siguienteId, errores, activo, semantica, memoria, aprobaciones>>

\* ------------------------------------------------------------ specifications
\* What the error table can hold when the service starts in pro mode: nothing,
\* or the record left by five runs in which a timed-out step was retried and
\* then succeeded.
RegistroTimeout ==
    [hash_error |-> hash_error(TIMEOUT, Nulo, ErrorTimeout),
     tipo_error |-> TIMEOUT, mensaje_error |-> ErrorTimeout, skill |-> Nulo,
     estrategia_usada |-> "reintentar", solucion_exitosa |-> TRUE,
     solucion_detalle |-> [timeout_multiplicador |-> 2], ocurrencias |-> 5]

ErroresPersistidos == { <<>>, <<RegistroTimeout>> }

\* After construction: GestorPlanes.__init__, an initialised agent; lite mode.
Init ==
    /\ planes = [p \in {} |-> 0]
    /\ sesiones = [s \in {} |-> 0]
    /\ siguienteId = 1
    /\ pc = "inactivo"
    /\ ej = EjInactivo
    /\ errores = <<>>
    /\ activo = FALSE
    /\ resultado = NoResultado
    /\ salida = NoSalida
    /\ aprobaciones = {}
    /\ corridas = [p \in PlanIds |-> 0]
    /\ semantica = SemanticaAusente
    /\ memoria = MemoriaAusente

\* What the sanitizer's rewrite call can also return: " Hi" followed by a line
\* feed, a lone blank, and U+3400 (the rewrite still holds a CJK code point).
Reescrituras == { Exito(<<32, 72, 105, 10>>), Exito(<<32>>), Exito(<<13312>>) }

\* The executor's steps and the end of a handler.
Pasos(respuestas) ==
    \/ ejecutar_plan
    \/ \E r \in respuestas : Intento(r)
    \/ \E r \in respuestas \cup Reescrituras, lanza \in BOOLEAN : Fin(r, lanza)
    \/ Continuar
    \/ Responder

\* The service: messages and the approve / reject routes, one request at a time.
NextServicio ==
    \/ \E s \in Sesiones, m \in Mensajes, d \in DatosServicio : Procesar(s, m, d)
    \/ \E p \in PlanIds : RutaAprobar(p)
    \/ \E p \in PlanIds : RutaRechazar(p)
    \/ limpiar_tras_rechazo
    \/ Pasos(RespuestasBasicas)

SpecServicio == Init /\ [][NextServicio]_vars

\* Every operation: the service's requests, the registry operations and the
\* executor called directly.
Next ==
    \/ \E s \in Sesiones, m \in Mensajes, d \in DatosBasicos : Procesar(s, m, d)
    \/ \E p \in PlanIds : RutaAprobar(p)
    \/ \E p \in PlanIds : RutaRechazar(p)
    \/ limpiar_tras_rechazo
    \/ \E s \in Sesiones, d \in DatosBasicos : OpRegistrar(s, d)
    \/ \E p \in PlanIds : OpAprobar(p)
    \/ \E p \in PlanIds : OpRechazar(p)
    \/ \E s \in Sesiones : OpLimpiar(s)
    \/ \E p \in PlanIds : OpEjecutar(p)
    \/ Pasos(RespuestasBasicas)

Spec == Init /\ [][Next]_vars

\* The executor called directly on every plan shape, with every outcome of the
\* text-generation calls, one stored plan at a time, in lite mode.
NextEjecutor ==
    \/ \E d \in DatosPlan : DOMAIN planes = {} /\ OpRegistrar("s1", d)
    \/ \E p \in PlanIds : OpAprobar(p)
    \/ \E p \in PlanIds : OpEjecutar(p)
    \/ OpLimpiar("s1")
    \/ Pasos(RespuestasLLM)

SpecEjecutor == Init /\ [][NextEjecutor]_vars

\* The executor in pro mode, on a few plan shapes, starting from what the error
\* table can hold.
InitPro ==
    /\ planes = [p \in {} |-> 0]
    /\ sesiones = [s \in {} |-> 0]
    /\ siguienteId = 1
    /\ pc = "inactivo"
    /\ ej = EjInactivo
    /\ activo = TRUE
    /\ errores \in ErroresPersistidos
    /\ resultado = NoResultado
    /\ salida = NoSalida
    /\ aprobaciones = {}
    /\ corridas = [p \in PlanIds |-> 0]
    /\ semantica = SemanticaAusente
    /\ memoria = MemoriaAusente

NextPro ==
    \/ \E d \in DatosPro : DOMAIN planes = {} /\ OpRegistrar("s1", d)
    \/ \E p \in PlanIds : OpAprobar(p)
    \/ \E p \in PlanIds : OpEjecutar(p)
    \/ OpLimpiar("s1")
    \/ Pasos(RespuestasBasicas)

SpecPro == InitPro /\ [][NextPro]_vars

\* The executor in pro mode with text-generation calls that answer or time
\* out, when a handler under way always goes on: every call it waits for
\* returns (the client is bounded by its timeout), so a step of the executor
\* that can be taken is taken.
RespuestasTimeout == { Exito(<<72, 105>>), Fallo(ErrorTimeout) }

NextTimeout ==
    \/ \E d \in DatosPro : DOMAIN planes = {} /\ OpRegistrar("s1", d)
    \/ \E p \in PlanIds : OpAprobar(p)
    \/ \E p \in PlanIds : OpEjecutar(p)
    \/ OpLimpiar("s1")
    \/ Pasos(RespuestasTimeout)

SpecTimeout == InitPro /\ [][NextTimeout]_vars /\ WF_vars(Pasos(RespuestasTimeout))

\* ------------------------------------------------------ the error memory
\* An error text longer than the hashed prefix: "Timeout después de 120s",
\* blanks up to 100 characters, and one more character.
ErrorLargo(c) ==
    ErrorTimeout \o [k \in 1..(PrefijoHash - Len(ErrorTimeout)) |-> " "] \o <<c>>

\* The diagnoses reported: of two error texts that differ only after the
\* hashed prefix, and of one that differs from them inside it.
DiagnosticosReportados ==
    { diagnosticar(ErrorLargo("a"), Nulo), diagnosticar(ErrorLargo("b"), Nulo),
      diagnosticar(SkillNoEncontrada("volar"), "volar") }

EstrategiasReportadas(d) == { NoEstrategia, estrategia_estatica(d, 1) }

\* EjecutorPlan._registrar_error called with a diagnosis, the strategy tried
\* and whether it worked.  The frame keeps the diagnosis and the strategy.
OpRegistrarError(d, estrategia, exito) ==
    /\ pc = "inactivo"
    /\ LET k == primera(errores, hash_error(d.tipo, d.skill, d.mensaje))
       IN  k # 0 => errores[k].ocurrencias < MaxOcurrencias
    /\ errores' = registrar_error(errores, activo, d, estrategia, exito)
    /\ ej' = [EjInactivo EXCEPT !.origen = "registrar_error", !.diag = d,
                                !.estr = estrategia]
    /\ UNCHANGED <<planes, sesiones, siguienteId, pc, activo, semantica, memoria, resultado, salida,
                   aprobaciones, corridas>>

\* Autocorrector.generar_estrategia called as the executor calls it after a
\* failed attempt; the frame keeps the arguments and the strategy returned.
OpGenerarEstrategia(d, intentos_previos) ==
    /\ pc = "inactivo"
    /\ ej' = [EjInactivo EXCEPT
                 !.origen = "generar_estrategia",
                 !.diag = d,
                 !.intentos = intentos_previos,
                 !.estr = generar_estrategia(errores, activo, d, intentos_previos)]
    /\ UNCHANGED <<planes, sesiones, siguienteId, pc, errores, activo, semantica, memoria, resultado,
                   salida, aprobaciones, corridas>>

\* Lite or pro mode, with the error table empty.
InitErrores ==
    /\ planes = [p \in {} |-> 0]
    /\ sesiones = [s \in {} |-> 0]
    /\ siguienteId = 1
    /\ pc = "inactivo"
    /\ ej = EjInactivo
    /\ activo \in BOOLEAN
    /\ errores = <<>>
    /\ resultado = NoResultado
    /\ salida = NoSalida
    /\ aprobaciones = {}
    /\ corridas = [p \in PlanIds |-> 0]
    /\ semantica = SemanticaAusente
    /\ memoria = MemoriaAusente

NextErrores ==
    \/ \E d \in DiagnosticosReportados, exito \in BOOLEAN :
          \E estrategia \in EstrategiasReportadas(d) :
              /\ exito => estrategia # NoEstrategia
              /\ OpRegistrarError(d, estrategia, exito)
    \/ \E d \in DiagnosticosReportados, intentos_previos \in 1..max_reintentos :
          OpGenerarEstrategia(d, intentos_previos)

SpecErrores == InitErrores /\ [][NextErrores]_vars

\* ----------------------------------- registrations of concurrent plan runs
\* The plan runs of different sessions, driven at the same time by the host,
\* call MemoriaErrores.registrar each with a database session of its own
\* (get_session, memoria/base.py 112-117).  No lock is taken and the column
\* hash_error has an index that is not unique (memoria/base.py 89), so the
\* query and the write of one call are two steps between which the steps of
\* another call can fall.

\* The failures reported by concurrent runs: a call of the absent skill
\* "volar", and a timed-out text-generation call.
DiagnosticosConcurrentes ==
    { diagnosticar(SkillNoEncontrada("volar"), "volar"),
      diagnosticar(ErrorTimeout, Nulo) }

\* first() returned None
NoFila == [ocurrencias |-> 0]

\* MemoriaErrores.registrar up to the query (lines 39-48), in the plan run of
\* session s: the call keeps the row that first() returned.
RegistrarConsulta(s, d, estrategia, exito) ==
    /\ pc = "inactivo"
    /\ activo
    /\ s \notin DOMAIN memoria.registros
    /\ LET k == primera(errores, hash_error(d.tipo, d.skill, d.mensaje))
       IN  /\ k # 0 => errores[k].ocurrencias <= MaxHalladas
           /\ k = 0 => Len(errores) < MaxFilas
           /\ memoria' = [memoria EXCEPT !.registros =
                             Poner(@, s, [diag |-> d, estrategia |-> estrategia,
                                          exito |-> exito,
                                          existe |-> IF k = 0 THEN NoFila
                                                     ELSE errores[k]])]
    /\ UNCHANGED <<planes, sesiones, siguienteId, pc, ej, errores, activo, semantica,
                   resultado, salida, aprobaciones, corridas>>

\* The rest of the call of session s (lines 50-76).  When the query found a
\* row, the row is written with the count the query read plus one, and with
\* the strategy, the mark and the detail when a success with a strategy is
\* reported; otherwise a new row is inserted and _limpiar_viejos runs.
\* `falla`: the write raises (the database is locked by another writer) and
\* the except clause (78-80) swallows it: nothing is written.
RegistrarEscribe(s, falla) ==
    /\ pc = "inactivo"
    /\ s \in DOMAIN memoria.registros
    /\ LET r == memoria.registros[s]
           h == hash_error(r.diag.tipo, r.diag.skill, r.diag.mensaje)
           k == primera(errores, h)
           accion == r.estrategia.accion
       IN  errores' =
              IF falla THEN errores
              ELSE IF r.existe # NoFila /\ k # 0
              THEN Append(SinFila(errores, k),
                       IF r.exito /\ accion \notin {"None", ""}
                       THEN [errores[k] EXCEPT
                               !.ocurrencias = r.existe.ocurrencias + 1,
                               !.estrategia_usada = accion,
                               !.solucion_exitosa = TRUE,
                               !.solucion_detalle = r.estrategia.parametros]
                       ELSE [errores[k] EXCEPT
                               !.ocurrencias = r.existe.ocurrencias + 1])
              ELSE IF r.existe # NoFila
              THEN errores
              ELSE limpiar_viejos(Append(errores,
                       [hash_error |-> h,
                        tipo_error |-> r.diag.tipo, mensaje_error |-> r.diag.mensaje,
                        skill |-> r.diag.skill,
                        estrategia_usada |-> IF accion = "None" THEN "" ELSE accion,
                        solucion_exitosa |-> r.exito,
                        solucion_detalle |-> r.estrategia.parametros,
                        ocurrencias |-> 1]))
    /\ memoria' = [memoria EXCEPT !.registros = Quitar(@, s)]
    /\ UNCHANGED <<planes, sesiones, siguienteId, pc, ej, activo, semantica,
                   resultado, salida, aprobaciones, corridas>>

\* Pro mode, with the error table empty.
InitConcurrente == InitErrores /\ activo

NextConcurrente ==
    \/ \E s \in Sesiones, d \in DiagnosticosConcurrentes, exito \in BOOLEAN :
          \E estrategia \in EstrategiasReportadas(d) :
              /\ exito => estrategia # NoEstrategia
              /\ RegistrarConsulta(s, d, estrategia, exito)
    \/ \E s \in Sesiones, falla \in BOOLEAN : RegistrarEscribe(s, falla)

SpecConcurrente == InitConcurrente /\ [][NextConcurrente]_vars

\* ------------------------------------------------------ the autocorrector
\* Pieces of error texts: nothing, "Not Found", "NO ENCONTRADA", "Falta",
\* "REQUERIDO", "TimeOut", "error", and two that only resemble a marker,
\* "time out" and "notfound".
PiezasNoEncontrada ==
    { <<"N", "o", "t", " ", "F", "o", "u", "n", "d">>,
      <<"N", "O", " ", "E", "N", "C", "O", "N", "T", "R", "A", "D", "A">> }
PiezasFalta ==
    { <<"F", "a", "l", "t", "a">>,
      <<"R", "E", "Q", "U", "E", "R", "I", "D", "O">> }
PiezasTimeout == { <<"T", "i", "m", "e", "O", "u", "t">> }
PiezasSinMarca ==
    { <<>>, <<"e", "r", "r", "o", "r">>, <<"t", "i", "m", "e", " ", "o", "u", "t">>,
      <<"n", "o", "t", "f", "o", "u", "n", "d">> }
Piezas == PiezasNoEncontrada \cup PiezasFalta \cup PiezasTimeout \cup PiezasSinMarca

\* The error texts diagnosed: two pieces with ": " between them, and the
\* texts the text-generation client returns.
Compuesto(a, b) == a \o <<":", " ">> \o b
ErroresDiagnosticados == { Compuesto(a, b) : a, b \in Piezas } \cup ErroresLLM

\* Autocorrector.diagnosticar called with an error text and a skill name; the
\* frame keeps the diagnosis returned.
OpDiagnosticar(error, skill) ==
    /\ pc = "inactivo"
    /\ ej' = [EjInactivo EXCEPT !.origen = "diagnosticar",
                                !.diag = diagnosticar(error, skill)]
    /\ UNCHANGED <<planes, sesiones, siguienteId, pc, errores, activo, semantica, memoria,
                   resultado, salida, aprobaciones, corridas>>

\* The diagnoses strategies are asked for: of a timeout whose solution the
\* persisted table may hold, of an absent skill, of a missing parameter and
\* of an error without a marker.
DiagnosticosConsultados ==
    { diagnosticar(ErrorTimeout, Nulo), diagnosticar(SkillNoEncontrada("volar"), "volar"),
      diagnosticar(ErrorHttpFalta, Nulo), diagnosticar(ErrorHttp500, Nulo) }

\* Lite or pro mode, with the error table empty or holding the solution of
\* the timeout; diagnosticar and generar_estrategia called in any order,
\* generar_estrategia with 0 to 4 attempts made.
InitAutocorrector ==
    /\ planes = [p \in {} |-> 0]
    /\ sesiones = [s \in {} |-> 0]
    /\ siguienteId = 1
    /\ pc = "inactivo"
    /\ ej = EjInactivo
    /\ activo \in BOOLEAN
    /\ errores \in ErroresPersistidos
    /\ resultado = NoResultado
    /\ salida = NoSalida
    /\ aprobaciones = {}
    /\ corridas = [p \in PlanIds |-> 0]
    /\ semantica = SemanticaAusente
    /\ memoria = MemoriaAusente

NextAutocorrector ==
    \/ \E error \in ErroresDiagnosticados, skill \in {Nulo, "volar"} :
          OpDiagnosticar(error, skill)
    \/ \E d \in DiagnosticosConsultados, intentos_previos \in 0..(max_reintentos + 1) :
          OpGenerarEstrategia(d, intentos_previos)

SpecAutocorrector == InitAutocorrector /\ [][NextAutocorrector]_vars

\* ----------------------------------------------------- the semantic memory
\* Texts, as code points: "Hi", "Hi <U+4F60><U+597D> !", "<U+4F60><U+597D>",
\* "<U+4F60> " and "  ".
TextoLimpio == <<72, 105>>
TextoMixto == <<72, 105, 32, 20320, 22909, 32, 33>>
TextoCJK == <<20320, 22909>>
TextoCJKEspacio == <<20320, 32>>
TextoBlanco == <<32, 32>>

\* What the persisted collection can hold when the process starts: documents
\* written before the sanitizer existed, older than the window.
Persistidos ==
    [i \in {"v1", "v2", "v3"} |->
        CASE i = "v1" -> Documento(TextoLimpio \o TextoBlanco \o TextoLimpio, "p1", 0)
          [] i = "v2" -> Documento(TextoMixto, "p2", 0)
          [] OTHER -> Documento(TextoCJKEspacio, Nulo, 0)]

ColeccionesPersistidas ==
    { [i \in D |-> Persistidos[i]] : D \in {{}, {"v2"}, DOMAIN Persistidos} }

\* What is added: a text and the plan id of its metadata.
Agregables ==
    { <<TextoLimpio, Nulo>>, <<TextoLimpio, "p1">>, <<TextoMixto, "p1">>,
      <<TextoCJK, Nulo>>, <<TextoBlanco, Nulo>> }

\* What is searched: a limit (0 for None) and a plan id or none.
Busquedas == { <<0, Nulo>>, <<1, Nulo>>, <<1, "p1">> }

\* GestorMemoriaAvanzada.inicializar calls semantica.inicializar().
Inicializar ==
    /\ pc = "inactivo"
    /\ ~semantica.inicializado
    /\ semantica' = inicializar(semantica)
    /\ UNCHANGED <<planes, sesiones, siguienteId, pc, ej, errores, activo, memoria,
                   resultado, salida, aprobaciones, corridas>>

OpAgregar(contenido, plan_id) ==
    /\ pc = "inactivo"
    /\ semantica.inicializado
    /\ semantica.agregados < MaxAgregados
    /\ semantica' = agregar(semantica, contenido, plan_id)
    /\ UNCHANGED <<planes, sesiones, siguienteId, pc, ej, errores, activo, memoria,
                   resultado, salida, aprobaciones, corridas>>

OpBuscar(limite, plan_id) ==
    /\ pc = "inactivo"
    /\ semantica.inicializado
    /\ \E orden \in Ordenes(semantica.coleccion, n_query_de(limite)) :
           semantica' = buscar(semantica, limite, plan_id, orden)
    /\ UNCHANGED <<planes, sesiones, siguienteId, pc, ej, errores, activo, memoria,
                   resultado, salida, aprobaciones, corridas>>

\* MemoriaSemantica.establecer_plan_actual and limpiar_plan_actual
EstablecerPlanActual(plan_id) ==
    /\ pc = "inactivo"
    /\ semantica' = [SinLlamada(semantica) EXCEPT !.plan_id_actual = plan_id]
    /\ UNCHANGED <<planes, sesiones, siguienteId, pc, ej, errores, activo, memoria,
                   resultado, salida, aprobaciones, corridas>>

\* Time passes between two calls.
Reloj ==
    /\ pc = "inactivo"
    /\ semantica.ahora + PasoReloj <= MaxReloj
    /\ semantica' = [SinLlamada(semantica) EXCEPT !.ahora = @ + PasoReloj]
    /\ UNCHANGED <<planes, sesiones, siguienteId, pc, ej, errores, activo, memoria,
                   resultado, salida, aprobaciones, corridas>>

InitSemantica ==
    /\ planes = [p \in {} |-> 0]
    /\ sesiones = [s \in {} |-> 0]
    /\ siguienteId = 1
    /\ pc = "inactivo"
    /\ ej = EjInactivo
    /\ activo = TRUE
    /\ errores = <<>>
    /\ resultado = NoResultado
    /\ salida = NoSalida
    /\ aprobaciones = {}
    /\ corridas = [p \in PlanIds |-> 0]
    /\ \E C \in ColeccionesPersistidas :
           semantica = [SemanticaAusente EXCEPT !.coleccion = C]
    /\ memoria = MemoriaAusente

NextSemantica ==
    \/ Inicializar
    \/ \E a \in Agregables : OpAgregar(a[1], a[2])
    \/ \E b \in Busquedas : OpBuscar(b[1], b[2])
    \/ \E plan_id \in {Nulo, "p1"} :
          semantica.plan_id_actual # plan_id /\ EstablecerPlanActual(plan_id)
    \/ Reloj

SpecSemantica == InitSemantica /\ [][NextSemantica]_vars

\* ------------------------------------------------- the memory coordinator
\* The planner outputs the executor is driven with when the stores can fail.
DatosMemoria ==
    { << [tipo |-> "razonamiento", skill |-> Nulo] >> }

\* What the text-generation calls return then: "Hi", or a timeout.
RespuestasMemoria == { Exito(<<72, 105>>), Fallo(ErrorTimeout) }

Almacenes == {"sqlite", "chroma"}

\* A store starts to fail, or recovers, at any moment of a run.
Averia(a) ==
    /\ memoria' = [memoria EXCEPT
                      !.averias = IF a \in @ THEN @ \ {a} ELSE @ \cup {a}]
    /\ UNCHANGED <<planes, sesiones, siguienteId, pc, ej, errores, activo, semantica,
                   resultado, salida, aprobaciones, corridas>>

\* Pro mode with the episodic memory enabled and the tables empty; ChromaDB
\* is absent, or the semantic memory was initialised on a collection that
\* holds one document of an earlier plan.
InitMemoria ==
    /\ planes = [p \in {} |-> 0]
    /\ sesiones = [s \in {} |-> 0]
    /\ siguienteId = 1
    /\ pc = "inactivo"
    /\ ej = EjInactivo
    /\ activo = TRUE
    /\ errores = <<>>
    /\ resultado = NoResultado
    /\ salida = NoSalida
    /\ aprobaciones = {}
    /\ corridas = [p \in PlanIds |-> 0]
    /\ semantica \in
           { SemanticaAusente,
             inicializar([SemanticaAusente EXCEPT
                             !.coleccion = [i \in {"v1"} |-> Persistidos[i]]]) }
    /\ memoria = [MemoriaAusente EXCEPT !.episodica = TRUE]

NextMemoria ==
    \/ \E d \in DatosMemoria : DOMAIN planes = {} /\ OpRegistrar("s1", d)
    \/ \E p \in PlanIds : OpAprobar(p)
    \/ \E p \in PlanIds : OpEjecutar(p)
    \/ OpLimpiar("s1")
    \/ Pasos(RespuestasMemoria)
    \/ \E a \in Almacenes : Averia(a)

SpecMemoria == InitMemoria /\ [][NextMemoria]_vars

\* ------------------------------------------------------------------ claims
\* C1: over registry operations, messages and executor runs, every change of
\* a stored plan's state is pendiente -> aprobado, pendiente -> rechazado,
\* aprobado -> en_ejecucion, en_ejecucion -> completado or en_ejecucion ->
\* fallido; so a plan in completado, fallido or rechazado keeps its state.
C1_Transiciones ==
    [][\A p \in DOMAIN planes \cap DOMAIN planes' :
          planes'[p].estado # planes[p].estado =>
              <<planes[p].estado, planes'[p].estado>> \in
                  { <<PENDIENTE, APROBADO>>, <<PENDIENTE, RECHAZADO>>,
                    <<APROBADO, EN_EJECUCION>>, <<EN_EJECUCION, COMPLETADO>>,
                    <<EN_EJECUCION, FALLIDO>> }]_vars

\* A plan was approved, run to completion, and aprobar_plan was then called on
\* it again: the call returned False.
C1_Testigo ==
    /\ pc = "respondido"
    /\ salida.clase = "aprobar"
    /\ ~salida.exito
    /\ salida.plan_id \in DOMAIN planes
    /\ planes[salida.plan_id].estado = COMPLETADO
    /\ corridas[salida.plan_id] = 1

\* C2: a stored plan with more than one step, or whose single step names a
\* skill or is not of kind respuesta, has had an executor run start on it
\* only if a user approval of it (an approval message while it was pending, or
\* the approve operation on its id) came before.
C2_SinAprobacionNoSeEjecuta ==
    \A p \in DOMAIN planes :
        ( /\ \/ Len(planes[p].pasos) > 1
             \/ planes[p].pasos[1].skill # Nulo
             \/ planes[p].pasos[1].tipo # RESPUESTA
          /\ corridas[p] > 0 ) => p \in aprobaciones

\* A two-step plan was approved and both its steps have run.
C2_Testigo ==
    /\ pc = "retorno"
    /\ Len(planes[ej.plan].pasos) > 1
    /\ resultado.pasos_ejecutados = 2
    /\ ej.plan \in aprobaciones

\* C3: each session id owns at most one stored plan whose state is pendiente,
\* aprobado or en_ejecucion.
C3_UnPlanNoTerminalPorSesion ==
    \A s \in Sesiones :
        Cardinality({p \in DOMAIN planes :
                        /\ planes[p].sesion_id = s
                        /\ planes[p].estado \in {PENDIENTE, APROBADO, EN_EJECUCION}}) <= 1

\* C4: ejecutar_plan entered on a plan that is not aprobado returns a failure
\* with zero executed, failed and auto-corrected steps, and leaves the
\* registry, the plan, the error memory and the count of text-generation
\* calls as they were.
C4_NoAprobadoNoCambiaNada ==
    [][(pc = "llamado" /\ planes[ej.plan].estado # APROBADO) =>
          /\ pc' = "retorno"
          /\ ~resultado'.exito
          /\ resultado'.pasos_ejecutados = 0
          /\ resultado'.pasos_fallidos = 0
          /\ resultado'.pasos_autocorregidos = 0
          /\ planes' = planes
          /\ sesiones' = sesiones
          /\ errores' = errores
          /\ ej'.llm = ej.llm]_vars

\* In pro mode, ejecutar_plan has returned from a call on a pending plan.
C4_Testigo ==
    /\ pc = "retorno"
    /\ activo
    /\ planes[ej.plan].estado = PENDIENTE
    /\ resultado.respuesta_final.clase = "no_aprobado"

\* C5: when ejecutar_plan returns from a run that started on an approved
\* plan, the plan is completado exactly when no step failed and fallido
\* exactly when some step failed, and the result's exito is true exactly when
\* the plan is completado.
C5_EstadoFinal ==
    [][(pc = "finalizando" /\ pc' = "retorno") =>
          /\ (planes'[ej.plan].estado = COMPLETADO) <=> (ej.fail = 0)
          /\ (planes'[ej.plan].estado = FALLIDO) <=> (ej.fail > 0)
          /\ resultado'.exito <=> (planes'[ej.plan].estado = COMPLETADO)]_vars

\* A run in which one step succeeded and one failed has returned.
C5_Testigo ==
    /\ pc = "retorno"
    /\ resultado.pasos_ejecutados = 1
    /\ resultado.pasos_fallidos = 1
    /\ planes[ej.plan].estado = FALLIDO
    /\ ~resultado.exito

\* C6: _ejecutar_paso runs at most 3 times on any step, whatever errors,
\* diagnoses and strategies (static or recalled from the error memory) occur.
C6_TresIntentos == ej.cuerpos.n <= 3

\* In pro mode a step has been run three times and succeeded at last, the
\* retry after a timeout having used the strategy recalled from the error
\* memory (its record counts one more success).
C6_Testigo ==
    /\ pc = "retorno"
    /\ ej.cuerpos.n = 3
    /\ resultado.pasos_autocorregidos = 1
    /\ \E k \in 1..Len(errores) :
           /\ errores[k].hash_error = hash_error(TIMEOUT, Nulo, ErrorTimeout)
           /\ errores[k].ocurrencias = 6

TieneAprobacion(m) == \E k \in PALABRAS_APROBACION : Contiene(lower(m), k)
TieneRechazo(m) == \E k \in PALABRAS_RECHAZO : Contiene(lower(m), k)

\* C8: while a plan is pending for the session, a message that contains an
\* approval keyword in any case moves the plan pendiente -> aprobado and the
\* same call runs the executor on it.
C8_AprobacionPorMensaje ==
    [][/\ pc = "inactivo" =>
            \A s \in Sesiones :
                LET p == obtener_plan_activo(Registro, s)
                IN  p # 0 =>
                      \A m \in {x \in Mensajes : TieneAprobacion(x)}, d \in DatosServicio :
                          Procesar(s, m, d) =>
                              /\ pc' = "llamado"
                              /\ ej'.plan = p
                              /\ p \in DOMAIN planes'
                              /\ planes'[p].estado = APROBADO
       /\ (pc = "llamado" /\ ej.origen = "mensaje") =>
              /\ pc' = "ejecutando"
              /\ planes'[ej.plan].estado = EN_EJECUCION]_vars

\* A plan approved by a message is being executed by the call that approved it.
C8_Testigo ==
    /\ pc = "ejecutando"
    /\ ej.origen = "mensaje"
    /\ ej.plan \in aprobaciones
    /\ planes[ej.plan].estado = EN_EJECUCION

\* C9 as stated: while a plan is pending for the session, a message that
\* contains a rejection keyword in any case moves the plan pendiente ->
\* rechazado, the session's mapping is then cleared, and the plan is not run.
C9_RechazoPorMensaje ==
    [][/\ pc = "inactivo" =>
            \A s \in Sesiones :
                LET p == obtener_plan_activo(Registro, s)
                IN  p # 0 =>
                      \A m \in {x \in Mensajes : TieneRechazo(x)}, d \in DatosServicio :
                          Procesar(s, m, d) =>
                              /\ pc' = "rechazado"
                              /\ ej'.plan = p
                              /\ ej'.sesion = s
                              /\ p \in DOMAIN planes'
                              /\ planes'[p].estado = RECHAZADO
                              /\ corridas'[p] = 0
       /\ pc = "rechazado" =>
              /\ pc' = "respondido"
              /\ ej.sesion \notin DOMAIN sesiones']_vars

\* C9: while a plan is pending for the session, a message that contains a
\* rejection keyword and no approval keyword moves the plan pendiente ->
\* rechazado, the session's mapping is then cleared, and the plan is not run.
C9_RechazoSinAprobacion ==
    [][/\ pc = "inactivo" =>
            \A s \in Sesiones :
                LET p == obtener_plan_activo(Registro, s)
                IN  p # 0 =>
                      \A m \in {x \in Mensajes : TieneRechazo(x) /\ ~TieneAprobacion(x)},
                         d \in DatosServicio :
                          Procesar(s, m, d) =>
                              /\ pc' = "rechazado"
                              /\ ej'.plan = p
                              /\ ej'.sesion = s
                              /\ p \in DOMAIN planes'
                              /\ planes'[p].estado = RECHAZADO
                              /\ corridas'[p] = 0
       /\ pc = "rechazado" =>
              /\ pc' = "respondido"
              /\ ej.sesion \notin DOMAIN sesiones']_vars

\* A message has rejected the session's pending plan and the call has ended.
C9_Testigo ==
    /\ pc = "respondido"
    /\ salida.clase = "cancelado"
    /\ DOMAIN sesiones = {}

\* C10: while a plan is pending for the session, a message with neither an
\* approval nor a rejection keyword removes that plan (mapping and object)
\* without approving or running it, and the plan generated in the call is
\* registered for the session.
C10_NiAprobacionNiRechazo ==
    [][pc = "inactivo" =>
          \A s \in Sesiones :
              LET p == obtener_plan_activo(Registro, s)
              IN  p # 0 =>
                    \A m \in {x \in Mensajes : ~TieneAprobacion(x) /\ ~TieneRechazo(x)},
                       d \in DatosServicio :
                        Procesar(s, m, d) =>
                            /\ p \notin DOMAIN planes'
                            /\ ej'.plan # p
                            /\ siguienteId \in DOMAIN planes'
                            /\ planes'[siguienteId].sesion_id = s
                            /\ s \in DOMAIN sesiones'
                            /\ sesiones'[s] = siguienteId]_vars

\* A call has dropped the pending plan and presented the plan it generated.
C10_Testigo ==
    /\ pc = "respondido"
    /\ salida.clase = "plan"
    /\ salida.descartados # {}
    /\ salida.plan_id \in DOMAIN planes
    /\ salida.descartados \cap DOMAIN planes = {}

\* The run in progress was started by a message on a plan no user approved.
AutoAprobado == ej.origen = "mensaje" /\ ej.plan \notin aprobaciones

\* C11: when procesar is called for a session with no pending plan and the
\* generated plan is one respuesta step without a skill, the same call
\* approves the plan and runs the executor on it; the plan is not pending
\* after the call, the response does not ask for approval, and when the step
\* succeeded the plan ends completado.
C11_AutoAprobacion ==
    [][/\ pc = "inactivo" =>
            \A s \in Sesiones :
                obtener_plan_activo(Registro, s) = 0 =>
                    \A m \in Mensajes, d \in DatosServicio :
                        LET plan == generar_plan(siguienteId, s, d)
                        IN  ( /\ Len(plan.pasos) = 1
                              /\ plan.pasos[1].tipo = RESPUESTA
                              /\ plan.pasos[1].skill = Nulo
                              /\ Procesar(s, m, d) ) =>
                                /\ pc' = "llamado"
                                /\ ej'.origen = "mensaje"
                                /\ ej'.plan = siguienteId
                                /\ siguienteId \in DOMAIN planes'
                                /\ planes'[siguienteId].estado = APROBADO
                                /\ siguienteId \notin aprobaciones'
       /\ (pc = "llamado" /\ AutoAprobado) =>
              /\ pc' = "ejecutando"
              /\ planes'[ej.plan].estado = EN_EJECUCION
       /\ (pc = "finalizando" /\ AutoAprobado /\ ej.ok = 1) =>
              planes'[ej.plan].estado = COMPLETADO
       /\ (pc = "retorno" /\ AutoAprobado) =>
              /\ pc' = "respondido"
              /\ salida'.clase = "final"
              /\ ~salida'.requiere_aprobacion
              /\ \A p \in DOMAIN planes' : planes'[p].id = ej.plan =>
                     planes'[p].estado # PENDIENTE]_vars

\* An auto-approved plan has been run and is completado.
C11_Testigo ==
    /\ pc = "retorno"
    /\ AutoAprobado
    /\ Len(planes[ej.plan].pasos) = 1
    /\ planes[ej.plan].estado = COMPLETADO
    /\ resultado.exito

\* The step is a skill call that names a skill the catalog does not hold.
SkillAusente(paso) == paso.tipo = SKILL /\ paso.skill \notin Catalogo

\* C12: a skill step that names an absent skill fails at every attempt with
\* "Skill no encontrada", diagnosed skill_no_encontrada and recoverable; on
\* the first two attempts the strategy skill_alternativa is chosen and the
\* step is tried again; the third attempt ends the step as failed, and the
\* plan ends fallido.
C12_SkillAusente ==
    [][/\ pc = "ejecutando" =>
            LET paso == planes[ej.plan].pasos[ej.i]
                d == diagnosticar(SkillNoEncontrada(paso.skill), paso.skill)
            IN  SkillAusente(paso) =>
                  /\ d.tipo = SKILL_NO_ENCONTRADA
                  /\ d.recuperable
                  /\ ej'.cuerpos = [paso |-> ej.i, n |-> ej.intentos + 1]
                  /\ ej'.llm = ej.llm
                  /\ ej'.ok = ej.ok
                  /\ IF ej.intentos + 1 < max_intentos
                     THEN /\ pc' = "ejecutando"
                          /\ ej'.i = ej.i
                          /\ ej'.intentos = ej.intentos + 1
                          /\ ej'.diag = d
                          /\ ej'.estr.accion = "skill_alternativa"
                          /\ ej'.autocorregido
                          /\ ej'.fail = ej.fail
                     ELSE /\ ej'.i = ej.i + 1
                          /\ ej'.fail = ej.fail + 1
       /\ pc = "finalizando" =>
            ((\E k \in 1..Len(planes[ej.plan].pasos) :
                  SkillAusente(planes[ej.plan].pasos[k])) =>
               /\ planes'[ej.plan].estado = FALLIDO
               /\ ~resultado'.exito)]_vars

\* A run whose last step named an absent skill has tried it three times and
\* the plan is fallido.
C12_Testigo ==
    /\ pc = "retorno"
    /\ ej.plan \in DOMAIN planes
    /\ LET pasos == planes[ej.plan].pasos
       IN  /\ Len(pasos) >= 1
           /\ SkillAusente(pasos[Len(pasos)])
           /\ ej.cuerpos = [paso |-> Len(pasos), n |-> max_intentos]
    /\ planes[ej.plan].estado = FALLIDO
    /\ resultado.pasos_fallidos >= 1

\* C13 as stated: a step is reported failed to the plan only after its
\* three execution attempts have been made.
C13_FalloTrasTresIntentos ==
    [][(pc = "ejecutando" /\ ej'.fail = ej.fail + 1) =>
          ej'.cuerpos = [paso |-> ej.i, n |-> max_intentos]]_vars

\* C13, amended: a step is reported failed to the plan after at most three
\* execution attempts, and before the third only when the diagnosis of the
\* failed attempt is not recoverable or the strategy for it is pedir_input,
\* abortar, escalar or none; every other failure is tried again.
C13_FalloAntesSoloSinReintento ==
    [][pc = "ejecutando" =>
          \A llm \in RespuestasBasicas :
              Intento(llm) =>
                  LET paso == planes[ej.plan].pasos[ej.i]
                      res == ejecutar_paso(paso, llm)
                      d == diagnosticar(res.error, paso.skill)
                      est == generar_estrategia(errores, activo, d, ej.intentos + 1)
                      temprano ==
                          \/ ~d.recuperable
                          \/ est.accion \in {"pedir_input", "abortar", "escalar", "None"}
                  IN  /\ ej'.cuerpos = [paso |-> ej.i, n |-> ej.intentos + 1]
                      /\ ej'.cuerpos.n <= max_intentos
                      /\ ej'.fail = ej.fail + 1 =>
                            (ej'.cuerpos.n = max_intentos \/ temprano)
                      /\ (~res.exito /\ ~temprano /\ ej.intentos + 1 < max_intentos) =>
                            /\ pc' = "ejecutando"
                            /\ ej'.i = ej.i
                            /\ ej'.fail = ej.fail]_vars

\* A step that calls the text-generation client has failed on its third
\* attempt, after two retries.
C13_Testigo ==
    /\ pc \in {"ejecutando", "finalizando"}
    /\ ej.cuerpos = [paso |-> 1, n |-> max_intentos]
    /\ ej.i = 2
    /\ ej.fail = 1
    /\ ej.llm = max_intentos
    /\ ~SkillAusente(planes[ej.plan].pasos[1])

\* C14: ejecutar_plan never raises, whatever the text-generation client, the
\* catalog lookup and the step bodies do: no exception leaves it, and the
\* ResultadoEjecucion it returns counts the failed steps and has exito false
\* when there is one.
C14_NuncaLanza ==
    /\ pc # "excepcion"
    /\ pc = "retorno" =>
          /\ resultado.pasos_fallidos = ej.fail
          /\ resultado.pasos_ejecutados = ej.ok
          /\ resultado.pasos_fallidos > 0 => ~resultado.exito

\* ejecutar_plan has returned from a plan with one step failed by the catalog
\* lookup and one failed by the text-generation client.
C14_Testigo ==
    /\ pc = "retorno"
    /\ resultado.pasos_fallidos = 2
    /\ ~resultado.exito
    /\ ej.llm >= 1
    /\ \E k \in 1..2 : SkillAusente(planes[ej.plan].pasos[k])
    /\ \E k \in 1..2 : ~SkillAusente(planes[ej.plan].pasos[k])

\* The rows of the error table with hash h.
FilasDe(E, h) == {k \in 1..Len(E) : E[k].hash_error = h}

Recordada(E, k) ==
    [accion |-> E[k].estrategia_usada, parametros |-> E[k].solucion_detalle,
     probabilidad |-> Min(E[k].ocurrencias, 10)]

\* The rows that hold a successful solution for the signature of diagnosis d.
Soluciones(E, d) ==
    {k \in FilasDe(E, hash_error(d.tipo, d.skill, d.mensaje)) : E[k].solucion_exitosa}

\* C16: when the memory is active, fewer than 3 attempts were made and the
\* error memory holds a successful solution for the signature of the
\* (recoverable) diagnosis with ocurrencias at or above the configured
\* threshold, generar_estrategia returns that solution's strategy with
\* probability min(ocurrencias/10, 1.0), not the static one.
C16_RecuerdaSobreUmbral ==
    ( /\ ej.origen = "generar_estrategia"
      /\ activo
      /\ ej.intentos < max_reintentos
      /\ ej.diag.recuperable ) =>
        \A k \in Soluciones(errores, ej.diag) :
            errores[k].ocurrencias >= umbral => ej.estr = Recordada(errores, k)

\* C17: while the row of a successful solution has ocurrencias below the
\* configured threshold, generar_estrategia does not return that solution;
\* for a recoverable diagnosis with fewer than 3 attempts made it returns the
\* static strategy of the diagnosis' kind.
C17_BajoUmbralEstatica ==
    ( /\ ej.origen = "generar_estrategia"
      /\ Soluciones(errores, ej.diag) # {}
      /\ \A k \in Soluciones(errores, ej.diag) : errores[k].ocurrencias < umbral ) =>
        /\ \A k \in Soluciones(errores, ej.diag) : ej.estr # Recordada(errores, k)
        /\ (ej.diag.recuperable /\ ej.intentos < max_reintentos) =>
              ej.estr = estrategia_estatica(ej.diag, ej.intentos)

\* With the memory active and a successful solution counted once, the
\* strategy returned at the first attempt is the static one.
C17_Testigo ==
    /\ ej.origen = "generar_estrategia"
    /\ activo
    /\ ej.intentos = 1
    /\ \E k \in Soluciones(errores, ej.diag) :
           /\ errores[k].ocurrencias = 1
           /\ errores[k].ocurrencias < umbral
    /\ ej.estr = estrategia_estatica(ej.diag, 1)

\* The documents buscar returned.
Hallados == {semantica.hallados[k] : k \in 1..Len(semantica.hallados)}

\* C18: a search of the semantic memory made with a plan id returns no
\* document whose metadata plan id is that plan id, however the query ranks
\* it and whatever its age.
C18_SinAutocitacion ==
    (semantica.op = "buscar" /\ semantica.plan_id # Nulo) =>
        \A i \in Hallados : semantica.coleccion[i].plan_id # semantica.plan_id

\* A search with plan id p1 ranked first a document of plan p1 that is older
\* than the window, and returned another document.
C18_Testigo ==
    /\ semantica.op = "buscar"
    /\ semantica.plan_id = "p1"
    /\ semantica.primero # Nulo
    /\ semantica.coleccion[semantica.primero].plan_id = "p1"
    /\ semantica.ahora - semantica.coleccion[semantica.primero].timestamp
           >= VENTANA_ANTI_AUTOCITACION
    /\ Hallados # {}

\* Seconds between the writing of stored document i and the clock.
Edad(i) == semantica.ahora - semantica.coleccion[i].timestamp

AntesDeSanitizar ==
    IF es_vacio(ej.resp) /\ ej.fail = 0 THEN Texto("defecto", 0, <<>>, <<>>) ELSE ej.resp

\* C21: at the end of ejecutar_plan the sanitizer makes exactly one
\* text-generation call when the final response holds a code point of the
\* ranges U+4E00-U+9FFF, U+3400-U+4DBF or U+F900-U+FAFF, and makes no call and
\* returns the response unchanged when it holds none.
C21_UnaReescritura ==
    [][pc = "finalizando" /\ pc' = "retorno" =>
          IF \E k \in 1..Len(AntesDeSanitizar.cuerpo) : es_cjk(AntesDeSanitizar.cuerpo[k])
          THEN ej'.llm = ej.llm + 1
          ELSE /\ ej'.llm = ej.llm
               /\ resultado'.respuesta_final = AntesDeSanitizar]_vars

\* ejecutar_plan has returned a rewritten response: the sanitizer made its call.
C21_Testigo ==
    /\ pc = "retorno"
    /\ resultado.respuesta_final.clase = "reescrita"
    /\ resultado.respuesta_final.cuerpo = <<72, 105>>

\* ------------------------------------------------------------------- C22
\* C22: when the sanitizer's rewrite call fails (a result with exito False,
\* an empty contenido, or an exception raised in the try block), ejecutar_plan
\* returns the text it handed to the sanitizer; the plan's final state and the
\* result's exito are those fixed before the sanitizer ran, from the number of
\* failed steps alone.
C22_ReescrituraFallida ==
    [][pc = "finalizando" =>
          \A llm \in RespuestasLLM \cup Reescrituras, lanza \in BOOLEAN :
              (Fin(llm, lanza) /\ (lanza \/ ~llm.exito \/ llm.contenido = <<>>)) =>
                  /\ resultado'.respuesta_final = AntesDeSanitizar
                  /\ resultado'.exito = (ej.fail = 0)
                  /\ planes'[ej.plan].estado =
                         IF ej.fail = 0 THEN COMPLETADO ELSE FALLIDO]_vars

\* ejecutar_plan has returned a response that still holds CJK code points as
\* the step generated them: the rewrite was attempted and failed.
C22_Testigo ==
    /\ pc = "retorno"
    /\ resultado.respuesta_final.clase = "contenido"
    /\ resultado.respuesta_final.cuerpo = <<20320, 22909, 33>>
    /\ resultado.exito
    /\ planes[ej.plan].estado = COMPLETADO

\* ------------------------------------------------------------------- C23
\* The rows of the episodic table written for plan p.
EpisodiosDe(M, p) == {k \in 1..Len(M.episodios) : M.episodios[k].plan_id = p}

\* C23: with the memory active, a run of ejecutar_plan that started on an
\* approved plan calls registrar_tarea exactly once, when the plan is already
\* completado or fallido, and a call on a plan that is not approved makes no
\* such call; the episodic table never holds two rows of the same plan.
C23_UnaTareaPorCorrida ==
    /\ [](\A p \in PlanIds : Cardinality(EpisodiosDe(memoria, p)) <= 1)
    /\ [][(pc # "retorno" /\ pc' = "retorno" /\ activo) =>
             IF pc = "finalizando"
             THEN /\ planes'[ej.plan].estado \in {COMPLETADO, FALLIDO}
                  /\ ej'.tareas = << planes'[ej.plan].estado >>
             ELSE ej'.tareas = <<>>]_vars

\* Two plans have run, the first completed and the second failed, and the
\* episodic table holds one row of each.
C23_Testigo ==
    /\ pc = "retorno"
    /\ ej.tareas = <<FALLIDO>>
    /\ Len(memoria.episodios) = 2
    /\ memoria.episodios[1].exito
    /\ memoria.episodios[2].plan_id = ej.plan
    /\ ~memoria.episodios[2].exito

\* ------------------------------------------------------------------- C24
\* C24: whatever store is at fault while a plan runs, no exception leaves
\* ejecutar_plan, an attempt whose step body returns is counted as a
\* successful step, and the plan is not left en_ejecucion when the run has
\* returned; the operation of a store at fault writes nothing (no row of the
\* error or episodic table, no document) and the lookup of the context with
\* both stores at fault gives the empty context.
C24_AveriasDeMemoria ==
    /\ [](pc # "excepcion")
    /\ [](pc \in {"retorno", "respondido", "inactivo"} =>
              \A p \in DOMAIN planes : planes[p].estado # EN_EJECUCION)
    /\ [][/\ pc = "ejecutando" =>
              \A llm \in RespuestasMemoria :
                  (Intento(llm) /\ ~cuerpo_paso(planes[ej.plan].pasos[ej.i], llm).lanza) =>
                      (ej'.ok = ej.ok + 1 /\ ej'.fail = ej.fail)
          /\ "sqlite" \in memoria.averias =>
                 (errores' = errores /\ memoria'.episodios = memoria.episodios)
          /\ "chroma" \in memoria.averias =>
                 semantica'.coleccion = semantica.coleccion
          /\ (pc = "llamado" /\ pc' = "ejecutando" /\ memoria.averias = Almacenes) =>
                 ej'.contexto.clase = "vacio"]_vars

\* With both stores at fault a run has returned from a plan whose step
\* succeeded after a retry: the memory context was empty, and no error row,
\* no episode and no document was written.
C24_Testigo ==
    /\ pc = "retorno"
    /\ memoria.averias = Almacenes
    /\ planes[ej.plan].estado = COMPLETADO
    /\ ej.auto = 1
    /\ ej.contexto.clase = "vacio"
    /\ ej.tareas = <<COMPLETADO>>
    /\ errores = <<>>
    /\ memoria.episodios = <<>>
    /\ semantica.inicializado
    /\ DOMAIN semantica.coleccion = {"v1"}

\* C25: aprobar_plan and rechazar_plan return True and change the state of
\* that plan, and of nothing else, exactly when the plan is stored and
\* PENDIENTE; in every other case they return False and both maps of the
\* registry, every plan included, stay as they were.
C25_SoloDesdePendiente ==
    [][pc = "inactivo" =>
       \A p \in PlanIds :
          LET pendiente == p \in DOMAIN planes /\ planes[p].estado = PENDIENTE
              efecto(nuevo) ==
                  IF pendiente
                  THEN /\ salida'.exito
                       /\ DOMAIN planes' = DOMAIN planes
                       /\ planes'[p] = [planes[p] EXCEPT !.estado = nuevo]
                       /\ \A q \in (DOMAIN planes) \ {p} : planes'[q] = planes[q]
                       /\ sesiones' = sesiones
                  ELSE /\ ~salida'.exito
                       /\ planes' = planes
                       /\ sesiones' = sesiones
          IN  /\ OpAprobar(p) => efecto(APROBADO)
              /\ OpRechazar(p) => efecto(RECHAZADO)]_vars

\* rechazar_plan has returned False on a stored plan that was not pending,
\* next to another plan that is.
C25_Testigo ==
    /\ pc = "respondido"
    /\ salida.clase = "rechazar"
    /\ ~salida.exito
    /\ salida.plan_id \in DOMAIN planes
    /\ planes[salida.plan_id].estado = APROBADO
    /\ \E q \in DOMAIN planes : planes[q].estado = PENDIENTE

\* The registry keeps, across a step, everything that belongs to a session
\* other than `s`: the mapping of every other session, and every stored plan
\* of another session, object and state.
Aislada(s) ==
    /\ \A t \in Sesiones \ {s} :
          /\ (t \in DOMAIN sesiones') = (t \in DOMAIN sesiones)
          /\ t \in DOMAIN sesiones => sesiones'[t] = sesiones[t]
    /\ \A q \in DOMAIN planes :
          planes[q].sesion_id # s => q \in DOMAIN planes' /\ planes'[q] = planes[q]

\* The session a step works for: the one named by the request that starts,
\* or the one of the plan it names, or the one of the handler under way.
OperaSobre(s) ==
    IF pc = "inactivo"
    THEN \/ \E m \in Mensajes, d \in DatosBasicos : Procesar(s, m, d)
         \/ \E d \in DatosBasicos : OpRegistrar(s, d)
         \/ OpLimpiar(s)
         \/ \E p \in DOMAIN planes :
               /\ planes[p].sesion_id = s
               /\ \/ RutaAprobar(p) \/ RutaRechazar(p)
                  \/ OpAprobar(p) \/ OpRechazar(p) \/ OpEjecutar(p)
    ELSE ej.sesion = s

\* C26: a message, an approval, a rejection or limpiar_sesion for one session,
\* followed to the end of its handler, leaves the mapping, the plan objects and
\* the plan states of every other session as they were; a step that works for
\* no session changes nothing in the registry.
C26_SesionesIndependientes ==
    [][/\ \A s \in Sesiones : OperaSobre(s) => Aislada(s)
       /\ (\A s \in Sesiones : ~OperaSobre(s)) =>
             planes' = planes /\ sesiones' = sesiones]_vars

\* A message of approval for one session has run its plan and cleared that
\* session, while another session holds a pending plan.
C26_Testigo ==
    /\ pc = "respondido"
    /\ ej.origen = "mensaje"
    /\ ej.sesion \notin DOMAIN sesiones
    /\ \E t \in DOMAIN sesiones :
          /\ t # ej.sesion
          /\ sesiones[t] \in DOMAIN planes
          /\ planes[sesiones[t]].estado = PENDIENTE

\* The occurrences counted by all the rows of an error table.
RECURSIVE TotalOcurrencias(_)
TotalOcurrencias(E) ==
    IF E = <<>> THEN 0 ELSE E[1].ocurrencias + TotalOcurrencias(Tail(E))

\* The attempt that `llm` answers fails and its strategy is pedir_input.
PideInput(llm) ==
    LET paso == planes[ej.plan].pasos[ej.i]
        res == ejecutar_paso(paso, llm)
        d == diagnosticar(IF res.error = <<>> THEN ErrorDesconocido ELSE res.error,
                          paso.skill)
    IN  /\ ~res.exito
        /\ d.recuperable
        /\ generar_estrategia(errores, activo, d, siguiente_intento(ej.intentos)).accion
              = "pedir_input"

\* C27: with the memory active, an attempt that ends its step in failure
\* otherwise than by pedir_input (diagnosis not recoverable; strategy missing,
\* abortar or escalar; attempts exhausted) registers the error once: the
\* occurrences counted by the error table grow by exactly one.
C27_UnRegistroPorFallo ==
    [][pc = "ejecutando" /\ activo =>
       \A llm \in RespuestasBasicas :
          (Intento(llm) /\ ej'.fail = ej.fail + 1 /\ ~PideInput(llm))
             => TotalOcurrencias(errores') = TotalOcurrencias(errores) + 1]_vars

\* C28: an attempt whose strategy is pedir_input ends its step at once, as a
\* failed step whose error is the strategy's message ("Necesito más
\* información: " and the error text): the step is not attempted again and
\* the error table is left as it was.
C28_PedirInput ==
    [][pc = "ejecutando" =>
       \A llm \in RespuestasBasicas :
          (Intento(llm) /\ PideInput(llm)) =>
             /\ ej'.i = ej.i + 1
             /\ ej'.intentos = 0
             /\ ej'.cuerpos = [paso |-> ej.i, n |-> ej.intentos + 1]
             /\ ej'.fail = ej.fail + 1
             /\ ej'.ok = ej.ok
             /\ ej'.auto = ej.auto
             /\ errores' = errores
             /\ es_vacio(ej.resp) =>
                   ej'.resp = Texto("error_paso", ej.i, <<>>, NecesitoMas \o llm.error)]_vars

\* A step has ended on its second attempt with the message of pedir_input,
\* after a first attempt that was retried, and the error table holds nothing.
C28_Testigo ==
    /\ pc = "finalizando"
    /\ activo
    /\ ej.fail = 1
    /\ ej.cuerpos.n = 2
    /\ ej.resp.clase = "error_paso"
    /\ ej.resp.error = NecesitoMas \o ErrorHttpFalta
    /\ errores = <<>>

\* C29: with the memory active, an attempt that succeeds after an earlier
\* attempt of the same step was corrected counts the step as autocorrected
\* and reports the last diagnosis and strategy to the error memory as a
\* success (one more occurrence; the row of that error holds the strategy as
\* a successful solution); an attempt that succeeds first counts no
\* autocorrection and leaves the error table as it was.
C29_ExitoTrasCorreccion ==
    [][pc = "ejecutando" /\ activo =>
       \A llm \in RespuestasBasicas :
          (Intento(llm) /\ ej'.ok = ej.ok + 1) =>
             IF ej.intentos = 0
             THEN /\ ej'.auto = ej.auto
                  /\ errores' = errores
             ELSE /\ ej'.auto = ej.auto + 1
                  /\ ej.diag.tipo # "None"
                  /\ ej.estr.accion # "None"
                  /\ TotalOcurrencias(errores') = TotalOcurrencias(errores) + 1
                  /\ \E k \in 1..Len(errores') :
                        /\ errores'[k].hash_error =
                              hash_error(ej.diag.tipo, ej.diag.skill, ej.diag.mensaje)
                        /\ errores'[k].solucion_exitosa
                        /\ errores'[k].estrategia_usada = ej.estr.accion
                        /\ errores'[k].solucion_detalle = ej.estr.parametros]_vars

\* A step has succeeded on its third attempt after two timeouts, starting
\* from an empty error table: it counts as autocorrected and the table holds
\* the retry as the successful solution of the timeout, with one occurrence.
C29_Testigo ==
    /\ pc = "finalizando"
    /\ activo
    /\ ej.ok = 1
    /\ ej.fail = 0
    /\ ej.auto = 1
    /\ ej.cuerpos.n = 3
    /\ Len(errores) = 1
    /\ errores[1].tipo_error = TIMEOUT
    /\ errores[1].solucion_exitosa
    /\ errores[1].estrategia_usada = "reintentar"
    /\ errores[1].ocurrencias = 1

\* C30: an attempt whose text-generation call times out is diagnosed TIMEOUT,
\* recoverable, and on the first and second attempt the strategy is
\* reintentar and the step goes on; on the third attempt the step ends as
\* failed.  So a run of ejecutar_plan called on an approved plan returns,
\* with the plan COMPLETADO or FALLIDO, and no plan is left EN_EJECUCION once
\* the handler has answered.
C30_TimeoutYTerminacion ==
    /\ [][pc = "ejecutando" /\ paso_llama_llm(planes[ej.plan].pasos[ej.i]) =>
          (Intento(Fallo(ErrorTimeout)) =>
             /\ ej.intentos + 1 <= max_intentos
             /\ IF ej.intentos + 1 < max_intentos
                THEN /\ pc' = "ejecutando"
                     /\ ej'.i = ej.i
                     /\ ej'.intentos = ej.intentos + 1
                     /\ ej'.diag.tipo = TIMEOUT
                     /\ ej'.diag.recuperable
                     /\ ej'.estr.accion = "reintentar"
                ELSE /\ ej'.i = ej.i + 1
                     /\ ej'.fail = ej.fail + 1)]_vars
    /\ [](pc \in {"inactivo", "respondido"} =>
            \A p \in DOMAIN planes : planes[p].estado # EN_EJECUCION)
    /\ \A p \in PlanIds :
          (pc = "llamado" /\ ej.plan = p /\ p \in DOMAIN planes
             /\ planes[p].estado = APROBADO)
          ~> (pc = "retorno" /\ ej.plan = p /\ p \in DOMAIN planes
                /\ planes[p].estado \in {COMPLETADO, FALLIDO})

\* A run on a plan of one reasoning step has returned after three attempts,
\* the calls having timed out, with the plan FALLIDO.
C30_Testigo ==
    /\ pc = "retorno"
    /\ Len(planes[ej.plan].pasos) = 1
    /\ planes[ej.plan].pasos[1].tipo = "razonamiento"
    /\ ej.cuerpos.n = 3
    /\ ej.llm = 3
    /\ planes[ej.plan].estado = FALLIDO
    /\ Len(errores) = 1
    /\ errores[1].tipo_error = TIMEOUT
    /\ errores[1].estrategia_usada = "escalar"

\* Whether an error text diagnosed is made of a piece of the given kind.
HechoDe(texto, piezas) ==
    \E a, b \in Piezas : texto = Compuesto(a, b) /\ (a \in piezas \/ b \in piezas)

\* C31: diagnosticar classifies the error text by the markers it contains,
\* whatever their case, in this order: a marker of an absent skill gives
\* SKILL_NO_ENCONTRADA, else a marker of a missing parameter gives
\* PARAMETRO_FALTANTE, else a marker of a timeout gives TIMEOUT, else
\* DESCONOCIDO; the diagnosis is recoverable exactly for the first three
\* kinds, keeps the text, and is never PARAMETRO_INVALIDO or LLM_ERROR.
C31_Clasificacion ==
    (ej.origen = "diagnosticar" /\ ej.diag.mensaje \notin ErroresLLM) =>
        /\ ej.diag.tipo =
              IF HechoDe(ej.diag.mensaje, PiezasNoEncontrada) THEN SKILL_NO_ENCONTRADA
              ELSE IF HechoDe(ej.diag.mensaje, PiezasFalta) THEN PARAMETRO_FALTANTE
              ELSE IF HechoDe(ej.diag.mensaje, PiezasTimeout) THEN TIMEOUT
              ELSE DESCONOCIDO
        /\ ej.diag.recuperable <=>
              ej.diag.tipo \in {SKILL_NO_ENCONTRADA, PARAMETRO_FALTANTE, TIMEOUT}
        /\ ej.diag.tipo \notin {PARAMETRO_INVALIDO, LLM_ERROR}

\* "TimeOut: NO ENCONTRADA" has been diagnosed: it holds the marker of a
\* timeout before that of an absent skill, in capitals, and the diagnosis
\* is SKILL_NO_ENCONTRADA.
C31_Testigo ==
    /\ ej.origen = "diagnosticar"
    /\ ej.diag.mensaje =
          Compuesto(<<"T", "i", "m", "e", "O", "u", "t">>,
                    <<"N", "O", " ", "E", "N", "C", "O", "N", "T", "R", "A", "D", "A">>)
    /\ ej.diag.tipo = SKILL_NO_ENCONTRADA
    /\ ej.diag.recuperable

\* C32: generar_estrategia returns None for a diagnosis that is not
\* recoverable, and for a recoverable one with 3 or more attempts made it
\* returns escalar with probability 0 and no parameters, whatever the error
\* memory holds.
C32_EscalarSinMemoria ==
    ej.origen = "generar_estrategia" =>
        /\ ~ej.diag.recuperable => ej.estr = NoEstrategia
        /\ (ej.diag.recuperable /\ ej.intentos >= 3) =>
              /\ ej.estr.accion = "escalar"
              /\ ej.estr.probabilidad = 0
              /\ ej.estr.parametros = SinParametros

\* With the memory active and the retry stored as the successful solution of
\* the timeout, 5 occurrences, a strategy was asked for that timeout after 3
\* attempts: it is escalar, though the memory would give the retry.
C32_Testigo ==
    /\ activo
    /\ errores = <<RegistroTimeout>>
    /\ ej.origen = "generar_estrategia"
    /\ ej.diag.tipo = TIMEOUT
    /\ ej.intentos = 3
    /\ buscar_en_memoria(errores, ej.diag).accion = "reintentar"
    /\ ej.estr.accion = "escalar"

\* What an attempt answered by `llm` does to the running response, given
\* the test `libre` of whether a failed step may write its error: a response
\* step that succeeds puts its result there, any other successful step and
\* an attempt that is retried leave it, and a failed step writes the error
\* with its number when `libre`, and leaves it otherwise.
RespuestaTrasIntento(llm, libre) ==
    LET paso == planes[ej.plan].pasos[ej.i]
    IN  /\ ej'.ok = ej.ok + 1 =>
             ej'.resp = IF paso.tipo = RESPUESTA
                        THEN Texto("contenido", paso.numero, llm.contenido, <<>>)
                        ELSE ej.resp
        /\ ej'.fail = ej.fail + 1 =>
             IF libre
             THEN /\ ej'.resp.clase = "error_paso"
                  /\ ej'.resp.paso = paso.numero
                  /\ ej'.resp.error # <<>>
             ELSE ej'.resp = ej.resp
        /\ (ej'.ok = ej.ok /\ ej'.fail = ej.fail) => ej'.resp = ej.resp

\* C33 as stated: a response step that succeeds always replaces the running
\* response with its result, and a failed step writes "Error en paso n: ..."
\* only if no response has been set before, whatever was set.
C33_RespuestaFinal ==
    [][pc = "ejecutando" =>
       \A llm \in RespuestasLLM :
          Intento(llm) => RespuestaTrasIntento(llm, ej.resp.clase = "vacio")]_vars

\* C33, amended: a failed step writes its error exactly when the running
\* response is the empty text, never set or set by a response step whose
\* result was empty.
C33_RespuestaFinalSiVacia ==
    [][pc = "ejecutando" =>
       \A llm \in RespuestasLLM :
          Intento(llm) =>
             RespuestaTrasIntento(llm, \/ ej.resp.clase = "vacio"
                                       \/ (ej.resp.clase = "contenido"
                                             /\ ej.resp.cuerpo = <<>>))]_vars

\* A response step answered "Hi" and the step after it failed: the running
\* response is still "Hi", of step 1.
C33_Testigo ==
    /\ pc = "finalizando"
    /\ ej.ok = 1
    /\ ej.fail = 1
    /\ ej.resp = Texto("contenido", 1, <<72, 105>>, <<>>)

\* C34: while a plan is executed every stored plan keeps its steps, and each
\* step its ordinal, kind and capability name; a step's parameter map changes
\* only in an attempt of that step whose strategy is a retry carrying
\* corrected parameters, and becomes those parameters; after an attempt
\* answered by an alternate-capability strategy the step is as it was.
C34_PasosIntactos ==
    [][(pc \in {"llamado", "ejecutando", "finalizando"}) =>
       \A p \in DOMAIN planes :
          /\ p \in DOMAIN planes'
          /\ Len(planes'[p].pasos) = Len(planes[p].pasos)
          /\ \A k \in 1..Len(planes[p].pasos) :
                LET antes == planes[p].pasos[k]
                    despues == planes'[p].pasos[k]
                IN  /\ despues.numero = antes.numero
                    /\ despues.tipo = antes.tipo
                    /\ despues.skill = antes.skill
                    /\ (despues.parametros # antes.parametros =>
                          /\ pc = "ejecutando"
                          /\ p = ej.plan
                          /\ k = ej.i
                          /\ ej'.estr.accion = "reintentar"
                          /\ "parametros_corregidos" \in DOMAIN ej'.estr.parametros
                          /\ despues.parametros =
                                ej'.estr.parametros.parametros_corregidos)
                    /\ ((ej'.intentos = ej.intentos + 1
                           /\ ej'.estr.accion = "skill_alternativa") =>
                          despues = antes)]_vars

\* The call of the absent skill "volar" with parameters failed once, the
\* strategy was the alternate capability, and the step waits for its second
\* attempt as the planner built it.
C34_Testigo ==
    /\ pc = "ejecutando"
    /\ ej.intentos = 1
    /\ ej.estr.accion = "skill_alternativa"
    /\ planes[ej.plan].pasos[ej.i] =
          [numero |-> ej.i, tipo |-> SKILL, skill |-> "volar",
           parametros |-> [altura |-> 1]]

\* The stored plan p stands rejected.
EstaRechazado(p) == p \in DOMAIN planes /\ planes[p].estado = RECHAZADO

\* The handler that just answered dropped the pending plan p because the
\* message carried no keyword.
FueDescartado(p) == p \in salida.descartados

\* The executor is running the steps of plan p.
CorrePasos(p) == pc \in {"ejecutando", "finalizando"} /\ ej.plan = p

\* C35: from the moment a plan is rejected, or dropped because the answer to
\* it matched no keyword, the executor never runs its steps, whatever messages,
\* approve and reject requests and direct operations follow.
C35_NuncaEjecutado ==
    \A p \in PlanIds :
       []((EstaRechazado(p) \/ FueDescartado(p)) => [](~CorrePasos(p)))

\* Plan 1 was dropped by a message without keyword, and plan 2, built from
\* that message, is running, plan 1 being gone.
C35_Testigo ==
    /\ pc = "ejecutando"
    /\ salida.descartados = {1}
    /\ ej.plan = 2
    /\ ej.origen = "mensaje"
    /\ planes[2].sesion_id = "s1"
    /\ 1 \notin DOMAIN planes
    /\ "s2" \notin DOMAIN sesiones

\* C36: when the service handles messages and approve / reject requests one
\* at a time, once a call has returned every stored plan is pending and is
\* the plan its session maps to, so a session has at most one stored plan and
\* no executed, rejected or dropped plan is left.
C36_RegistroTrasLlamada ==
    pc \in {"inactivo", "respondido"} =>
       /\ \A p \in DOMAIN planes :
             /\ planes[p].estado = PENDIENTE
             /\ planes[p].sesion_id \in DOMAIN sesiones
             /\ sesiones[planes[p].sesion_id] = p
       /\ \A p, q \in DOMAIN planes :
             planes[p].sesion_id = planes[q].sesion_id => p = q

\* Both sessions were presented a plan: two stored plans, each pending and
\* mapped by its own session, after the second call returned.
C36_Testigo ==
    /\ pc = "inactivo"
    /\ DOMAIN planes = {1, 2}
    /\ planes[1].sesion_id # planes[2].sesion_id
    /\ sesiones[planes[1].sesion_id] = 1
    /\ sesiones[planes[2].sesion_id] = 2

\* C37: a run of an approved plan takes its steps in order, one after the
\* other whether the step before succeeded or failed, and ends after the
\* last one; in the result it returns, executed plus failed steps is the
\* number of steps of the plan and the auto-corrected steps are among the
\* executed ones.
C37_TodosLosPasos ==
    /\ []((pc = "retorno" /\ resultado.respuesta_final.clase # "no_aprobado") =>
            /\ resultado.pasos_ejecutados + resultado.pasos_fallidos =
                  Len(planes[resultado.plan].pasos)
            /\ resultado.pasos_autocorregidos <= resultado.pasos_ejecutados)
    /\ [][(pc = "llamado" /\ pc' = "ejecutando") =>
             (ej'.i = 1 /\ ej'.ok = 0 /\ ej'.fail = 0)]_vars
    /\ [][(pc = "ejecutando" /\ pc' \in {"ejecutando", "finalizando"}) =>
             /\ ej'.cuerpos.paso = ej.i
             /\ ej'.i \in {ej.i, ej.i + 1}
             /\ ej'.ok + ej'.fail = ej'.i - 1
             /\ ej'.auto <= ej'.ok
             /\ (pc' = "finalizando") = (ej'.i = Len(planes[ej.plan].pasos) + 1)]_vars

\* The first of two steps failed, the second was executed all the same, and
\* the run returned one failed and one executed step.
C37_Testigo ==
    /\ pc = "retorno"
    /\ Len(planes[resultado.plan].pasos) = 2
    /\ resultado.pasos_fallidos = 1
    /\ resultado.pasos_ejecutados = 1
    /\ resultado.respuesta_final.clase = "contenido"
    /\ resultado.respuesta_final.paso = 2

\* The row of table E for the hash h, or the row of an absent record.
FilaDe(E, h) ==
    IF primera(E, h) # 0 THEN E[primera(E, h)]
    ELSE [hash_error |-> h, solucion_exitosa |-> FALSE, estrategia_usada |-> "",
          solucion_detalle |-> SinParametros, ocurrencias |-> 0]

\* The confidence a lookup of diagnosis d returns from table E, 0 for none.
ConfianzaDe(E, d) ==
    IF hay_solucion(E, d.tipo, d.mensaje, d.skill)
    THEN buscar_solucion(E, d.tipo, d.mensaje, d.skill).confianza
    ELSE 0

C39_SoloReintentoOAlternativa ==
    /\ \A k \in 1..Len(errores) :
          errores[k].solucion_exitosa =>
             errores[k].estrategia_usada \in {"reintentar", "skill_alternativa"}
    /\ \A d \in DiagnosticosConsultados :
          buscar_en_memoria(errores, d).accion \in
             {"None", "reintentar", "skill_alternativa"}

\* The table was empty at the start and a run has just returned with a
\* corrected step: the table holds a record marked as solved by a retry, with
\* fewer occurrences than a persisted one has, and a record of an escalated
\* failure that is not marked.
C39_Testigo ==
    /\ pc = "retorno"
    /\ resultado.pasos_autocorregidos = 1
    /\ \E k \in 1..Len(errores) :
          /\ errores[k].solucion_exitosa
          /\ errores[k].estrategia_usada = "reintentar"
          /\ errores[k].ocurrencias < 5
    /\ \E k \in 1..Len(errores) :
          /\ ~errores[k].solucion_exitosa
          /\ errores[k].estrategia_usada = "escalar"

\* C40: the error memory holds at most one row per hash, whatever calls of
\* registrar were made, the calls of plan runs of different sessions that
\* overlap included.
C40_UnRegistroPorHashConcurrente ==
    \A h \in { errores[k].hash_error : k \in 1..Len(errores) } :
       Cardinality(FilasDe(errores, h)) = 1

====
